---- MODULE Spec2Model ----
(***************************************************************************)
(* Event ingestion, filtering and webhook delivery pipeline of whatsmiau:  *)
(* Handle (limiter + instance cache + per-kind handlers), the emitter      *)
(* channel and its single worker with retry (sendWebhookWithRetry).        *)
(***************************************************************************)
EXTENDS Integers, Sequences, FiniteSets, TLC

----------------------------------------------------------------------------
(* Bounds of the model *)

\* number of Handle calls made by the session runtimes in one behaviour
MaxEvents == 3
\* capacity of s.handlerSemaphore (env HANDLER_SEMAPHORE_SIZE), scaled down
HandlerSemaphoreSize == 2
\* capacity of the s.emitter channel (env EMITTER_BUFFER_SIZE), scaled down
EmitterBufferSize == 2
\* largest number of message ids carried by one receipt event
MaxReceiptIDs == 2
\* last instant of the clock (minutes) in the cache specification
MaxClock == 6
\* capacity of the semaphore of processAlwaysOnlineInstances (20 in the source)
PresencePoolSize == 2

----------------------------------------------------------------------------
(* Program constants *)

\* maxRetries := 3
maxRetries == 3
\* retryDelays := {2s, 5s, 10s}
retryDelays == <<2, 5, 10>>
\* http.StatusOK
StatusOK == 200
\* cache.DefaultExpiration of s.instanceCache: 5 minutes
DefaultExpiration == 5

\* event-kind strings (the subscription vocabulary)
WookMessagesUpsert == "MESSAGES_UPSERT"
WookMessagesUpdate == "MESSAGES_UPDATE"
WookContactsUpsert == "CONTACTS_UPSERT"
WookConnectionUpdate == "CONNECTION_UPDATE"

EventKinds ==
  {WookMessagesUpsert, WookMessagesUpdate, WookContactsUpsert, WookConnectionUpdate}

----------------------------------------------------------------------------
(* Values *)

\* instance ids: "a" and "b" have a row in the repository, "z" has none
KnownIds == {"a", "b"}
Ids == KnownIds \cup {"z"}

\* nil *models.Instance / empty repo.List result
NoInstance == [ID |-> "-"]
\* absent cache item
NoItem == [found |-> FALSE]
\* no task held by the worker
NoTask == [id |-> 0]
\* the arguments of a call are not recorded
NoArgs == [id |-> "-"]

\* a nil pointer or nil slice returned by a converter
Nil == [nil |-> TRUE]

\* models.Instance (the fields the pipeline reads); Base64 is
\* instance.Webhook.Base64 set and true
Instance(id, events, groupsIgnore, readMessages, skipOwn, base64) ==
  [ID |-> id, Url |-> id, Events |-> events, GroupsIgnore |-> groupsIgnore,
   ReadMessages |-> readMessages, SkipOwnMessages |-> skipOwn, Base64 |-> base64]

\* a message that is not an image, audio, document or video message
NoMedia == [kind |-> "none"]

\* the attachment of a message, with what its relay will meet: whether
\* os.CreateTemp, client.DownloadToFile, io.ReadAll and fileStorage.Upload
\* succeed
Media == [kind : {"imageMessage"}, tmp : BOOLEAN, download : BOOLEAN, read : BOOLEAN,
          upload : BOOLEAN]

\* names are strings seen as token sequences; "@" is the separator token
EmptyName == <<>>
Names == {EmptyName, <<"Bob">>, <<"x", "@", "g.us">>, <<"x", "@", "y">>}

\* the raw events of the session runtime, by Go type
MessageEvents ==
  [type : {"Message"}, chat : {"user", "group", "broadcast"}, fromMe : BOOLEAN,
   body : BOOLEAN, media : {NoMedia}]
ReceiptEvents ==
  [type : {"Receipt"}, chat : {"user", "group"}, rtype : {"read", "delivered", "other"},
   n : 0..MaxReceiptIDs]
ContactEvents ==
  [type : {"Contact"}, chat : {"user", "group"}, first : Names, full : {EmptyName},
   user : {EmptyName, <<"Bob">>}]
PushNameEvents ==
  [type : {"PushName"}, chat : {"user", "group"}, new : Names,
   old : {EmptyName, <<"Al">>}]
\* evt.Message of a business name event: nil, or its push name and the
\* verified name of its details
BusinessMessages ==
  {Nil} \cup [PushName : {EmptyName, <<"Cy">>}, VerifiedName : {EmptyName, <<"Di">>}]
BusinessNameEvents ==
  [type : {"BusinessName"}, chat : {"user", "group"}, new : Names,
   old : {EmptyName, <<"Al">>},
   msg : BusinessMessages]
PictureEvents == [type : {"Picture"}, chat : {"user", "group"}, pic : BOOLEAN]
GroupInfoEvents == [type : {"GroupInfo"}, chat : {"group"}, name : Names]
\* the push names and conversations of a history sync; "bad" is an id that
\* types.ParseJID rejects
HistoryPushnames == [ID : {"p", "q", "bad"}, Pushname : Names]
HistoryConversations ==
  [ID : {"q", "bad"}, Name : {EmptyName, <<"Bob">>, <<"x", "@", "g.us">>},
   DisplayName : {EmptyName, <<"Al">>}, Username : {EmptyName}]
HistorySyncEvents ==
  [type : {"HistorySync"}, chat : {"user"},
   pushnames : {<<>>} \cup {<<n>> : n \in HistoryPushnames}
               \cup {<<m, n>> : m \in [ID : {"p"}, Pushname : Names],
                                n \in [ID : {"q"},
                                       Pushname : {<<"Bob">>, <<"x", "@", "g.us">>}]},
   conversations : {<<>>} \cup {<<c>> : c \in HistoryConversations}]
OtherEvents == {[type |-> "LoggedOut"], [type |-> "Unknown"]}

\* events of the router specification: one task (a self-sent message,
\* which starts no acknowledgement), a group message, a message that fails
\* to convert, several tasks, the logged-out path and a type the switch
\* ignores
RouterEvents ==
  {[type |-> "Message", chat |-> "user", fromMe |-> TRUE, body |-> TRUE,
    media |-> NoMedia],
   [type |-> "Message", chat |-> "group", fromMe |-> TRUE, body |-> TRUE,
    media |-> NoMedia],
   [type |-> "Message", chat |-> "user", fromMe |-> TRUE, body |-> FALSE,
    media |-> NoMedia],
   [type |-> "Receipt", chat |-> "user", rtype |-> "read", n |-> MaxReceiptIDs],
   [type |-> "LoggedOut"], [type |-> "Unknown"]}

\* an event that emits one task and starts no acknowledgement
DeliverEvents ==
  {[type |-> "Message", chat |-> "user", fromMe |-> TRUE, body |-> TRUE,
    media |-> NoMedia]}

RawEvents ==
  MessageEvents \cup ReceiptEvents \cup ContactEvents \cup PushNameEvents
  \cup BusinessNameEvents \cup PictureEvents \cup GroupInfoEvents
  \cup HistorySyncEvents \cup OtherEvents

\* outcome of one delivery attempt: request construction error, transport
\* error, or a response with a status code
Outcomes ==
  {[err |-> "create", status |-> 0], [err |-> "send", status |-> 0]}
  \cup [err : {"none"}, status : {200, 201, 500}]

\* the outcomes that carry a response: success and server error
ResponseOutcomes == [err : {"none"}, status : {200}]

----------------------------------------------------------------------------
VARIABLES
  repo,             \* the persistence collaborator: id -> row or NoInstance
  instanceCache,    \* s.instanceCache: id -> item (value, expiration)
  clock,            \* time.Now(), in minutes
  storedAt,         \* instant of the latest store of each id in the cache, -1 if none
  clients,          \* s.clients: ids holding a live session handle
  handlerSemaphore, \* number of tokens in s.handlerSemaphore
  emitter,          \* s.emitter: the buffered channel of tasks
  nextTask,         \* number of tasks sent on s.emitter so far
  pc,               \* position of each Handle call
  hid,              \* id argument of each Handle call
  hinst,            \* instance obtained by the call's last getInstanceCached
  todo,             \* payloads the call still has to emit
  hafter,           \* where the call continues after its emits
  hargs,            \* id and evt of a call made with its event, kept after it returned
  wpc,              \* position of the worker (startEmitter)
  cur,              \* task the worker received
  attempt,          \* loop variable of sendWebhookWithRetry
  tries,            \* attempts made for cur
  wdelays,          \* delays slept for cur, in order
  lastErr,          \* lastErr of sendWebhookWithRetry
  lastStatusCode,   \* lastStatusCode of sendWebhookWithRetry
  wres,             \* terminal outcome of the latest finished task
  takenLog,         \* ids of the tasks received by the worker, in order
  termLog,          \* ids of the tasks that reached a terminal outcome, in order
  crashed,          \* the process died from an unrecovered panic
  receipts,         \* acknowledgement goroutines started by the handlers
  fileStorage,      \* s.fileStorage is not nil: a blob storage is configured
  cmd,              \* the command operation in progress or last returned
  alwaysOnlineIDs,  \* s.alwaysOnlineIDs: ids stored with the value true
  instanceIDs,      \* instanceIDs of the latest processAlwaysOnlineInstances
  ranged,           \* keys its Range has visited
  spc,              \* position of keepAlwaysOnlineManager
  bpc,              \* position and outcome of the batch goroutine of each id
  flagOp            \* latest of enableAlwaysOnline / disableAlwaysOnline called for each id

cacheVars == <<repo, instanceCache, clock, storedAt>>
handlerVars == <<pc, hid, hinst, todo, hafter, hargs>>
presenceVars == <<alwaysOnlineIDs, instanceIDs, ranged, spc, bpc, flagOp>>
workerVars ==
  <<wpc, cur, attempt, tries, wdelays, lastErr, lastStatusCode, wres,
    takenLog, termLog>>
vars ==
  <<repo, instanceCache, clock, storedAt, clients, handlerSemaphore, emitter, nextTask,
    pc, hid, hinst, todo, hafter, hargs, wpc, cur, attempt, tries, wdelays,
    lastErr, lastStatusCode, wres, takenLog, termLog, crashed, receipts,
    alwaysOnlineIDs, instanceIDs, ranged, spc, bpc, flagOp, fileStorage, cmd>>

Calls == 1..MaxEvents

\* no command operation was called yet
NoCommand ==
  [op |-> "-", id |-> "-", pc |-> "idle", calls |-> <<>>, failed |-> FALSE,
   result |-> "-"]

----------------------------------------------------------------------------
(* Helpers of the converters *)

\* strings.Split(name, "@"): the pieces between separator tokens
RECURSIVE Split(_)
Split(name) ==
  IF \A i \in 1..Len(name) : name[i] # "@"
  THEN <<name>>
  ELSE LET k == CHOOSE i \in 1..Len(name) :
                  name[i] = "@" /\ \A j \in 1..(i - 1) : name[j] # "@"
       IN <<SubSeq(name, 1, k - 1)>> \o Split(SubSeq(name, k + 1, Len(name)))

\* dt := strings.Split(name, "@"); len(dt) == 2 && (dt[1] == "g.us" || ...)
LooksLikeJid(name) ==
  LET dt == Split(name)
  IN Len(dt) = 2 /\ dt[2] \in {<<"g.us">>, <<"s.whatsapp.net">>}

\* eventMap built from instance.Webhook.Events
EventMap(instance) == instance.Events

\* WookEvent: the notification handed to emit together with the url
Payload(instance, kind, data) ==
  [instance |-> instance.ID, event |-> kind, url |-> instance.Url, Data |-> data]

\* WookContact (the jid of a single-identity event is not modelled)
Contact(jid, name) == [RemoteJid |-> jid, PushName |-> name]

\* canIgnoreGroup, the part of the content policy that reads the instance:
\* group chats of an instance with group-skip enabled, and self-sent
\* messages of an instance with own-message-skip enabled
canIgnoreGroup(e, instance) ==
  \/ instance.GroupsIgnore /\ e.chat = "group"
  \/ e.type = "Message" /\ instance.SkipOwnMessages /\ e.fromMe

\* canIgnoreMessage: broadcast / status chats
canIgnoreMessage(e) == e.chat = "broadcast"

\* convertEventMessage: nil without a client or without a message body
\* an upload whose results do not depend on the instance or the storage
uploadMessageFile_Unconditional(instance, media) ==
  IF ~media.download THEN <<"", "">>
  ELSE <<IF media.upload THEN "url" ELSE "", IF media.read THEN "base64" ELSE "">>

\* uploadMessageFile once the temporary file exists: (urlResult, b64Result).
\* A failed download returns two empty strings; the file is inlined when
\* instance.Webhook.Base64 is set and uploaded when s.fileStorage is not
\* nil, each failure leaving its result empty (Upload returning no url with
\* its error)
uploadMessageFile(instance, media) ==
  IF ~media.download THEN <<"", "">>
  ELSE <<IF fileStorage /\ media.upload THEN "url" ELSE "",
         IF instance.Base64 /\ media.read THEN "base64" ELSE "">>

\* convertEventMessage reaches uploadMessageFile and os.CreateTemp fails:
\* panic(err)
convertEventMessagePanics(id, instance, e, cl) ==
  /\ id \in cl
  /\ e.body
  /\ e.media # NoMedia
  /\ ~e.media.tmp

convertEventMessage(id, instance, e, cl) ==
  IF id \notin cl THEN Nil
  ELSE IF ~e.body THEN Nil
  ELSE LET up == IF e.media = NoMedia THEN <<"", "">>
                 ELSE uploadMessageFile(instance, e.media)
       IN [Key |-> [FromMe |-> e.fromMe],
           Status |-> IF e.fromMe THEN "sent" ELSE "received",
           Message |-> [MediaURL |-> up[1], Base64 |-> up[2]]]

\* convertEventReceipt: one update per message id, read and delivered only
convertEventReceipt(e) ==
  IF e.rtype \notin {"read", "delivered"} THEN <<>>
  ELSE [i \in 1..e.n |->
          [MessageId |-> i,
           Status |-> IF e.rtype = "read" THEN "READ" ELSE "DELIVERY_ACK"]]

convertContact(e) ==
  LET name == IF e.first # EmptyName THEN e.first
              ELSE IF e.full # EmptyName THEN e.full ELSE e.user
  IN IF name = EmptyName THEN Nil
     ELSE IF LooksLikeJid(name) THEN Nil
     ELSE Contact("j", name)

\* the name tested is the new or else the old one, the name returned is
\* evt.NewPushName
convertPushName(e) ==
  LET name == IF Len(e.new) # 0 THEN e.new ELSE e.old
  IN IF name = EmptyName THEN Nil
     ELSE IF LooksLikeJid(name) THEN Nil
     ELSE Contact("j", e.new)

\* no test for an empty name
convertBusinessName(e) ==
  LET n1 == IF e.new # EmptyName THEN e.new ELSE e.old
      n2 == IF n1 = EmptyName /\ e.msg # Nil THEN e.msg.PushName ELSE n1
      name == IF n2 = EmptyName /\ e.msg # Nil THEN e.msg.VerifiedName ELSE n2
  IN IF LooksLikeJid(name) THEN Nil ELSE Contact("j", name)

convertGroupInfo(e) ==
  IF Len(e.name) = 0 THEN Nil
  ELSE IF LooksLikeJid(e.name) THEN Nil
  ELSE Contact("j", e.name)

\* convertPicture: nil unless getPic yields a url, which needs a client
convertPicture(id, e, cl) ==
  IF id \in cl /\ e.pic THEN [RemoteJid |-> "j", ProfilePicUrl |-> "url"] ELSE Nil

\* the first loop of convertContactHistorySync over event[k..]: resultMap,
\* or Nil when the function returns nil
RECURSIVE HistoryPushnameLoop(_, _, _)
HistoryPushnameLoop(event, k, resultMap) ==
  IF k > Len(event) THEN resultMap
  ELSE IF Len(event[k].Pushname) = 0 THEN HistoryPushnameLoop(event, k + 1, resultMap)
  ELSE IF LooksLikeJid(event[k].Pushname) THEN Nil
  ELSE IF event[k].ID = "bad" THEN Nil
  ELSE HistoryPushnameLoop(event, k + 1,
         [resultMap EXCEPT ![event[k].ID] = Contact(event[k].ID, event[k].Pushname)])

\* the second loop, over conversations[k..]
RECURSIVE HistoryConversationLoop(_, _, _)
HistoryConversationLoop(conversations, k, resultMap) ==
  IF k > Len(conversations) THEN resultMap
  ELSE LET c == conversations[k]
           name == IF Len(c.Name) # 0 THEN c.Name
                   ELSE IF Len(c.DisplayName) # 0 THEN c.DisplayName ELSE c.Username
       IN IF Len(name) = 0 THEN HistoryConversationLoop(conversations, k + 1, resultMap)
          ELSE IF LooksLikeJid(name) THEN Nil
          ELSE IF c.ID = "bad" THEN Nil
          ELSE HistoryConversationLoop(conversations, k + 1,
                 [resultMap EXCEPT ![c.ID] = Contact(c.ID, name)])

\* convertContactHistorySync: the contacts of resultMap (a slice in map
\* order, here a set); the nil slice, here {}, when a name looks like a jid,
\* an id does not parse or nothing is left
convertContactHistorySync(e) ==
  LET empty == [k \in {"p", "q"} |-> Nil]
      m1 == HistoryPushnameLoop(e.pushnames, 1, empty)
      m2 == IF m1 = Nil THEN Nil ELSE HistoryConversationLoop(e.conversations, 1, m1)
  IN IF m2 = Nil THEN {}
     ELSE {m2[k] : k \in {k \in DOMAIN m2 : m2[k] # Nil}}

----------------------------------------------------------------------------
(* The per-kind handlers: the payloads each one emits, in order *)

\* handleMessageEvent without the subscription check
handleMessageEvent_NoFilter(id, instance, e, eventMap, cl) ==
  IF canIgnoreGroup(e, instance) THEN <<>>
  ELSE IF canIgnoreMessage(e) THEN <<>>
  ELSE IF convertEventMessage(id, instance, e, cl) = Nil THEN <<>>
  ELSE <<Payload(instance, WookMessagesUpsert, convertEventMessage(id, instance, e, cl))>>

\* handleMessageEvent without the test of the instance's content policy
handleMessageEvent_NoPolicy(id, instance, e, eventMap, cl) ==
  IF WookMessagesUpsert \notin eventMap THEN <<>>
  ELSE IF canIgnoreMessage(e) THEN <<>>
  ELSE IF convertEventMessage(id, instance, e, cl) = Nil THEN <<>>
  ELSE <<Payload(instance, WookMessagesUpsert, convertEventMessage(id, instance, e, cl))>>

handleMessageEvent(id, instance, e, eventMap, cl) ==
  IF WookMessagesUpsert \notin eventMap THEN <<>>
  ELSE IF canIgnoreGroup(e, instance) THEN <<>>
  ELSE IF canIgnoreMessage(e) THEN <<>>
  ELSE IF convertEventMessage(id, instance, e, cl) = Nil THEN <<>>
  ELSE <<Payload(instance, WookMessagesUpsert, convertEventMessage(id, instance, e, cl))>>

\* handleMessageEvent gets as far as the conversion and that panics
handleMessageEventPanics(id, instance, e, eventMap, cl) ==
  /\ WookMessagesUpsert \in eventMap
  /\ ~canIgnoreGroup(e, instance)
  /\ ~canIgnoreMessage(e)
  /\ convertEventMessagePanics(id, instance, e, cl)

\* a handleMessageEvent that starts the acknowledgements of self-sent
\* messages too
handleMessageEventAcks_Always(id, instance, e, eventMap, cl) ==
  IF handleMessageEvent(id, instance, e, eventMap, cl) = <<>> THEN {}
  ELSE (IF e.chat # "broadcast" THEN {"delivered"} ELSE {})
       \cup (IF instance.ReadMessages /\ e.chat # "broadcast" THEN {"read"} ELSE {})

\* a handleMessageEvent that starts the acknowledgements before it converts
handleMessageEventAcks_BeforeConvert(id, instance, e, eventMap, cl) ==
  IF WookMessagesUpsert \notin eventMap THEN {}
  ELSE IF canIgnoreGroup(e, instance) \/ canIgnoreMessage(e) THEN {}
  ELSE (IF ~e.fromMe /\ e.chat # "broadcast" THEN {"delivered"} ELSE {})
       \cup (IF instance.ReadMessages /\ ~e.fromMe /\ e.chat # "broadcast"
             THEN {"read"} ELSE {})

\* the goroutines handleMessageEvent starts once the message is converted:
\* go s.sendDeliveryReceipt(id, e) and go s.markAsReadAfterDelay(id, e, 8s)
handleMessageEventAcks(id, instance, e, eventMap, cl) ==
  IF handleMessageEvent(id, instance, e, eventMap, cl) = <<>> THEN {}
  ELSE (IF ~e.fromMe /\ e.chat # "broadcast" THEN {"delivered"} ELSE {})
       \cup (IF instance.ReadMessages /\ ~e.fromMe /\ e.chat # "broadcast"
             THEN {"read"} ELSE {})

handleReceiptEvent(id, instance, e, eventMap) ==
  IF WookMessagesUpdate \notin eventMap THEN <<>>
  ELSE IF canIgnoreGroup(e, instance) THEN <<>>
  ELSE LET data == convertEventReceipt(e)
       IN [i \in 1..Len(data) |-> Payload(instance, WookMessagesUpdate, data[i])]

handleBusinessNameEvent(id, instance, e, eventMap) ==
  IF WookContactsUpsert \notin eventMap THEN <<>>
  ELSE IF convertBusinessName(e) = Nil THEN <<>>
  ELSE <<Payload(instance, WookContactsUpsert, {convertBusinessName(e)})>>

handleContactEvent(id, instance, e, eventMap) ==
  IF WookContactsUpsert \notin eventMap THEN <<>>
  ELSE IF canIgnoreGroup(e, instance) THEN <<>>
  ELSE IF convertContact(e) = Nil THEN <<>>
  ELSE <<Payload(instance, WookContactsUpsert, {convertContact(e)})>>

handlePictureEvent(id, instance, e, eventMap, cl) ==
  IF WookContactsUpsert \notin eventMap THEN <<>>
  ELSE IF convertPicture(id, e, cl) = Nil THEN <<>>
  ELSE <<Payload(instance, WookContactsUpsert, {convertPicture(id, e, cl)})>>

handleHistorySyncEvent(id, instance, e, eventMap) ==
  IF WookContactsUpsert \notin eventMap THEN <<>>
  ELSE IF convertContactHistorySync(e) = {} THEN <<>>
  ELSE <<Payload(instance, WookContactsUpsert, convertContactHistorySync(e))>>

handleGroupInfoEvent(id, instance, e, eventMap) ==
  IF WookContactsUpsert \notin eventMap THEN <<>>
  ELSE IF instance.GroupsIgnore THEN <<>>
  ELSE IF convertGroupInfo(e) = Nil THEN <<>>
  ELSE <<Payload(instance, WookContactsUpsert, {convertGroupInfo(e)})>>

handlePushNameEvent(id, instance, e, eventMap) ==
  IF WookContactsUpsert \notin eventMap THEN <<>>
  ELSE IF canIgnoreGroup(e, instance) THEN <<>>
  ELSE IF convertPushName(e) = Nil THEN <<>>
  ELSE <<Payload(instance, WookContactsUpsert, {convertPushName(e)})>>

\* the type switch of Handle, for every type but *events.LoggedOut
Switch(id, instance, e, cl) ==
  LET eventMap == EventMap(instance)
  IN CASE e.type = "Message" -> handleMessageEvent(id, instance, e, eventMap, cl)
       [] e.type = "Receipt" -> handleReceiptEvent(id, instance, e, eventMap)
       [] e.type = "BusinessName" -> handleBusinessNameEvent(id, instance, e, eventMap)
       [] e.type = "Contact" -> handleContactEvent(id, instance, e, eventMap)
       [] e.type = "Picture" -> handlePictureEvent(id, instance, e, eventMap, cl)
       [] e.type = "HistorySync" -> handleHistorySyncEvent(id, instance, e, eventMap)
       [] e.type = "GroupInfo" -> handleGroupInfoEvent(id, instance, e, eventMap)
       [] e.type = "PushName" -> handlePushNameEvent(id, instance, e, eventMap)
       [] OTHER -> <<>>

----------------------------------------------------------------------------
(* The instance cache (go-cache) *)

\* cache.Get that never looks at the expiration
CacheGet_NoExpiry(cache, id, now) == cache[id].found

\* cache.Get: found unless absent or expired (now after the expiration)
CacheGet(cache, id, now) == cache[id].found /\ ~(now > cache[id].exp)

\* a Set whose items live twice the TTL
CacheSet_TwiceTTL(cache, id, val, now) ==
  [cache EXCEPT ![id] = [found |-> TRUE, val |-> val, exp |-> now + 2 * DefaultExpiration]]

\* cache.Set with cache.DefaultExpiration: expiration is now + TTL
CacheSet(cache, id, val, now) ==
  [cache EXCEPT ![id] = [found |-> TRUE, val |-> val, exp |-> now + DefaultExpiration]]

----------------------------------------------------------------------------
(* Initial states *)

Subscriptions == {{}, {WookMessagesUpsert, WookConnectionUpdate}}

\* "a" subscribes to two kinds and skips groups, "b" subscribes to all
InitRepo ==
  [id \in Ids |->
     CASE id = "a" -> Instance("a", {WookMessagesUpsert, WookConnectionUpdate}, TRUE, FALSE, FALSE, FALSE)
       [] id = "b" -> Instance("b", EventKinds, FALSE, TRUE, FALSE, FALSE)
       [] OTHER -> NoInstance]

InitPipeline ==
  /\ instanceCache = [id \in Ids |-> NoItem]
  /\ clock = 0
  /\ storedAt = [id \in Ids |-> -1]
  /\ clients = KnownIds
  /\ handlerSemaphore = 0
  /\ emitter = <<>>
  /\ nextTask = 0
  /\ pc = [e \in Calls |-> "new"]
  /\ hid = [e \in Calls |-> "-"]
  /\ hinst = [e \in Calls |-> NoInstance]
  /\ todo = [e \in Calls |-> <<>>]
  /\ hafter = [e \in Calls |-> "return"]
  /\ hargs = [e \in Calls |-> NoArgs]
  /\ wpc = "idle"
  /\ cur = NoTask
  /\ attempt = 0
  /\ tries = 0
  /\ wdelays = <<>>
  /\ lastErr = [kind |-> "nil", status |-> 0]
  /\ lastStatusCode = 0
  /\ wres = "none"
  /\ takenLog = <<>>
  /\ termLog = <<>>
  /\ crashed = FALSE
  /\ receipts = {}
  /\ alwaysOnlineIDs = {}
  /\ instanceIDs = {}
  /\ ranged = {}
  /\ spc = "startup"
  /\ bpc = [id \in Ids |-> "-"]
  /\ flagOp = [id \in Ids |-> "none"]
  /\ cmd = NoCommand

\* no blob storage is configured
InitCommon == fileStorage = FALSE /\ InitPipeline

Init == repo = InitRepo /\ InitCommon

----------------------------------------------------------------------------
(* Handle *)

\* a goroutine started without waiting for a slot
CanAcquire_Unbounded(sem) == TRUE

\* a send on s.handlerSemaphore proceeds while the buffer has room
CanAcquire(sem) == sem < HandlerSemaphoreSize

\* the session runtime calls the handler returned by Handle(id), which
\* returns once it has sent on s.handlerSemaphore and started the goroutine
HandleCall(e, id) ==
  /\ ~crashed
  /\ pc[e] = "new"
  /\ IF e = 1 THEN TRUE ELSE pc[e - 1] # "new"
  /\ CanAcquire(handlerSemaphore)
  /\ handlerSemaphore' = handlerSemaphore + 1
  /\ pc' = [pc EXCEPT ![e] = "get"]
  /\ hid' = [hid EXCEPT ![e] = id]
  /\ UNCHANGED <<cmd, fileStorage, presenceVars, receipts, cacheVars, clients, emitter, nextTask, hinst, todo, hafter,
                 hargs, workerVars, crashed>>

\* the same call, its event fixed from the start: evt is the argument of
\* the handler, which the goroutine reads at the type switch
HandleEvent(e, id, evt) ==
  /\ ~crashed
  /\ pc[e] = "new"
  /\ IF e = 1 THEN TRUE ELSE pc[e - 1] # "new"
  /\ CanAcquire(handlerSemaphore)
  /\ handlerSemaphore' = handlerSemaphore + 1
  /\ pc' = [pc EXCEPT ![e] = "get"]
  /\ hid' = [hid EXCEPT ![e] = id]
  /\ hargs' = [hargs EXCEPT ![e] = [id |-> id, evt |-> evt]]
  /\ UNCHANGED <<cmd, fileStorage, presenceVars, receipts, cacheVars, clients, emitter, nextTask, hinst, todo, hafter,
                 workerVars, crashed>>

\* a return that leaves the slot taken
Return_NoRelease(e) ==
  /\ handlerSemaphore' = handlerSemaphore
  /\ pc' = [pc EXCEPT ![e] = "done"]
  /\ hid' = [hid EXCEPT ![e] = "-"]
  /\ hinst' = [hinst EXCEPT ![e] = NoInstance]

\* the goroutine of a call returns and its deferred function runs:
\* defer func() { <-s.handlerSemaphore }()
Return(e) ==
  /\ handlerSemaphore' = handlerSemaphore - 1
  /\ pc' = [pc EXCEPT ![e] = "done"]
  /\ hid' = [hid EXCEPT ![e] = "-"]
  /\ hinst' = [hinst EXCEPT ![e] = NoInstance]

\* an emitConnectionUpdate that does not look at the subscription
Continue_NoSubscriptionTest(e, instance) ==
  IF pc[e] \in {"get", "lookup"}
  THEN /\ IF instance = NoInstance
          THEN Return(e)
          ELSE /\ hinst' = [hinst EXCEPT ![e] = instance]
               /\ pc' = [pc EXCEPT ![e] = "switch"]
               /\ UNCHANGED <<handlerSemaphore, hid>>
       /\ UNCHANGED <<todo, hafter>>
  ELSE /\ hinst' = [hinst EXCEPT ![e] = instance]
       /\ UNCHANGED <<handlerSemaphore, hid>>
       /\ IF instance = NoInstance
          THEN /\ pc' = [pc EXCEPT ![e] = "logout"]
               /\ UNCHANGED <<todo, hafter>>
          ELSE /\ pc' = [pc EXCEPT ![e] = "emit"]
               /\ todo' = [todo EXCEPT ![e] =
                              <<Payload(instance, WookConnectionUpdate, [Status |-> "close"])>>]
               /\ hafter' = [hafter EXCEPT ![e] = "logout"]

\* a caller that takes an instance subscribed to everything when it got none
Continue_DefaultInstance(e, instance) ==
  LET got == IF instance = NoInstance
             THEN Instance(hid[e], EventKinds, FALSE, TRUE, FALSE, FALSE) ELSE instance
  IN IF pc[e] \in {"get", "lookup"}
     THEN /\ hinst' = [hinst EXCEPT ![e] = got]
          /\ pc' = [pc EXCEPT ![e] = "switch"]
          /\ UNCHANGED <<handlerSemaphore, hid, todo, hafter>>
     ELSE /\ hinst' = [hinst EXCEPT ![e] = got]
          /\ UNCHANGED <<handlerSemaphore, hid>>
          /\ IF WookConnectionUpdate \notin EventMap(got)
             THEN /\ pc' = [pc EXCEPT ![e] = "logout"]
                  /\ UNCHANGED <<todo, hafter>>
             ELSE /\ pc' = [pc EXCEPT ![e] = "emit"]
                  /\ todo' = [todo EXCEPT ![e] =
                                 <<Payload(got, WookConnectionUpdate, [Status |-> "close"])>>]
                  /\ hafter' = [hafter EXCEPT ![e] = "logout"]

\* a caller that keeps the instance it got in one place shared by all calls
Continue_SharedInstance(e, instance) ==
  IF pc[e] \in {"get", "lookup"}
  THEN /\ IF instance = NoInstance
          THEN Return(e)
          ELSE /\ hinst' = [x \in Calls |-> instance]
               /\ pc' = [pc EXCEPT ![e] = "switch"]
               /\ UNCHANGED <<handlerSemaphore, hid>>
       /\ UNCHANGED <<todo, hafter>>
  ELSE /\ hinst' = [x \in Calls |-> instance]
       /\ UNCHANGED <<handlerSemaphore, hid>>
       /\ IF instance = NoInstance \/ WookConnectionUpdate \notin EventMap(instance)
          THEN /\ pc' = [pc EXCEPT ![e] = "logout"]
               /\ UNCHANGED <<todo, hafter>>
          ELSE /\ pc' = [pc EXCEPT ![e] = "emit"]
               /\ todo' = [todo EXCEPT ![e] =
                              <<Payload(instance, WookConnectionUpdate, [Status |-> "close"])>>]
               /\ hafter' = [hafter EXCEPT ![e] = "logout"]

\* the caller of getInstanceCached continues with the instance it got:
\* Handle returns on nil and builds eventMap otherwise; emitConnectionUpdate
\* returns on nil or without the subscription and emits otherwise
Continue(e, instance) ==
  IF pc[e] \in {"get", "lookup"}
  THEN /\ IF instance = NoInstance
          THEN Return(e)
          ELSE /\ hinst' = [hinst EXCEPT ![e] = instance]
               /\ pc' = [pc EXCEPT ![e] = "switch"]
               /\ UNCHANGED <<handlerSemaphore, hid>>
       /\ UNCHANGED <<todo, hafter>>
  ELSE /\ hinst' = [hinst EXCEPT ![e] = instance]
       /\ UNCHANGED <<handlerSemaphore, hid>>
       /\ IF instance = NoInstance \/ WookConnectionUpdate \notin EventMap(instance)
          THEN /\ pc' = [pc EXCEPT ![e] = "logout"]
               /\ UNCHANGED <<todo, hafter>>
          ELSE /\ pc' = [pc EXCEPT ![e] = "emit"]
               /\ todo' = [todo EXCEPT ![e] =
                              <<Payload(instance, WookConnectionUpdate, [Status |-> "close"])>>]
               /\ hafter' = [hafter EXCEPT ![e] = "logout"]

\* getInstanceCached up to the cache read: a hit returns the cached value,
\* a miss issues repo.List
GetInstanceCached(e) ==
  /\ ~crashed
  /\ pc[e] \in {"get", "cu_get"}
  /\ IF CacheGet(instanceCache, hid[e], clock)
     THEN Continue(e, instanceCache[hid[e]].val)
     ELSE /\ pc' = [pc EXCEPT ![e] = IF pc[e] = "get" THEN "lookup" ELSE "cu_lookup"]
          /\ UNCHANGED <<handlerSemaphore, hid, hinst, todo, hafter>>
  /\ UNCHANGED <<cmd, fileStorage, presenceVars, receipts, cacheVars, clients, emitter, nextTask, hargs, workerVars,
                 crashed>>

\* a getInstanceCached that caches the empty result too
LookupReturn_CachesNil(e, failed) ==
  /\ ~crashed
  /\ pc[e] \in {"lookup", "cu_lookup"}
  /\ IF failed
     THEN /\ crashed' = TRUE
          /\ pc' = [pc EXCEPT ![e] = "panic"]
          /\ handlerSemaphore' = handlerSemaphore - 1
          /\ UNCHANGED <<instanceCache, storedAt, hid, hinst, todo, hafter>>
     ELSE /\ instanceCache' = CacheSet(instanceCache, hid[e], repo[hid[e]], clock)
          /\ storedAt' = [storedAt EXCEPT ![hid[e]] = clock]
          /\ Continue(e, repo[hid[e]])
          /\ UNCHANGED crashed
  /\ UNCHANGED <<cmd, fileStorage, presenceVars, receipts, repo, clock, clients, emitter, nextTask, hargs, workerVars>>

\* getInstanceCached after repo.List returned: Panic on error, nil on an
\* empty result, otherwise the row is cached and returned
LookupReturn(e, failed) ==
  /\ ~crashed
  /\ pc[e] \in {"lookup", "cu_lookup"}
  /\ IF failed
     THEN /\ crashed' = TRUE
          /\ pc' = [pc EXCEPT ![e] = "panic"]
          /\ handlerSemaphore' = handlerSemaphore - 1
          /\ UNCHANGED <<instanceCache, storedAt, hid, hinst, todo, hafter>>
     ELSE /\ IF repo[hid[e]] = NoInstance
             THEN UNCHANGED <<instanceCache, storedAt>>
             ELSE /\ instanceCache' = CacheSet(instanceCache, hid[e], repo[hid[e]], clock)
                  /\ storedAt' = [storedAt EXCEPT ![hid[e]] = clock]
          /\ Continue(e, repo[hid[e]])
          /\ UNCHANGED crashed
  /\ UNCHANGED <<cmd, fileStorage, presenceVars, receipts, repo, clock, clients, emitter, nextTask, hargs, workerVars>>

\* the type switch: handleLoggedOut starts with emitConnectionUpdate, the
\* other handlers filter and convert and leave the payloads to emit, or
\* return when there is none
SwitchStep(e, evt) ==
  /\ ~crashed
  /\ pc[e] = "switch"
  /\ IF hargs[e] = NoArgs THEN TRUE ELSE hargs[e].evt = evt
  /\ IF evt.type = "Message"
        /\ handleMessageEventPanics(hid[e], hinst[e], evt, EventMap(hinst[e]), clients)
     THEN /\ crashed' = TRUE
          /\ pc' = [pc EXCEPT ![e] = "panic"]
          /\ handlerSemaphore' = handlerSemaphore - 1
          /\ UNCHANGED <<receipts, hid, hinst, todo>>
     ELSE /\ receipts' =
               IF evt.type # "Message" THEN receipts
               ELSE receipts \cup
                    {[call |-> e, id |-> hid[e], e |-> evt, kind |-> k, state |-> "started"] :
                       k \in handleMessageEventAcks(hid[e], hinst[e], evt, EventMap(hinst[e]),
                                                    clients)}
          /\ IF evt.type = "LoggedOut"
             THEN /\ pc' = [pc EXCEPT ![e] = "cu_get"]
                  /\ UNCHANGED <<handlerSemaphore, hid, hinst, todo>>
             ELSE LET out == Switch(hid[e], hinst[e], evt, clients)
                  IN IF out = <<>>
                     THEN Return(e) /\ UNCHANGED todo
                     ELSE /\ todo' = [todo EXCEPT ![e] = out]
                          /\ pc' = [pc EXCEPT ![e] = "emit"]
                          /\ UNCHANGED <<handlerSemaphore, hid, hinst>>
          /\ UNCHANGED crashed
  /\ UNCHANGED <<cmd, fileStorage, presenceVars, cacheVars, clients, emitter, nextTask, hafter, hargs,
                 workerVars>>

\* a send that never waits for room
CanSend_Always(q) == TRUE

\* a send on s.emitter proceeds while the buffer has room
CanSend(q) == Len(q) < EmitterBufferSize

\* emit: s.emitter <- emitter{url, body}
emit(q, body, n) == Append(q, [id |-> n, url |-> body.url, data |-> body])

\* a send that waits for the earlier calls of the same id to return
Emit_InOrder(e) ==
  /\ ~crashed
  /\ pc[e] = "emit"
  /\ \A d \in Calls : d < e => hid[d] # hid[e]
  /\ CanSend(emitter)
  /\ emitter' = emit(emitter, Head(todo[e]), nextTask + 1)
  /\ nextTask' = nextTask + 1
  /\ todo' = [todo EXCEPT ![e] = Tail(todo[e])]
  /\ IF Tail(todo[e]) = <<>> /\ hafter[e] = "return"
     THEN Return(e)
     ELSE /\ pc' = [pc EXCEPT ![e] = IF Tail(todo[e]) = <<>> THEN hafter[e] ELSE "emit"]
          /\ UNCHANGED <<handlerSemaphore, hid, hinst>>
  /\ UNCHANGED <<cmd, fileStorage, presenceVars, receipts, cacheVars, clients, hafter, hargs, workerVars, crashed>>

Emit(e) ==
  /\ ~crashed
  /\ pc[e] = "emit"
  /\ CanSend(emitter)
  /\ emitter' = emit(emitter, Head(todo[e]), nextTask + 1)
  /\ nextTask' = nextTask + 1
  /\ todo' = [todo EXCEPT ![e] = Tail(todo[e])]
  /\ IF Tail(todo[e]) = <<>> /\ hafter[e] = "return"
     THEN Return(e)
     ELSE /\ pc' = [pc EXCEPT ![e] = IF Tail(todo[e]) = <<>> THEN hafter[e] ELSE "emit"]
          /\ UNCHANGED <<handlerSemaphore, hid, hinst>>
  /\ UNCHANGED <<cmd, fileStorage, presenceVars, receipts, cacheVars, clients, hafter, hargs, workerVars, crashed>>

\* handleLoggedOut after emitConnectionUpdate: delete the device of a
\* registered client, return if that fails, else drop the client; then the
\* handler returns
LogoutDelete(e, deleted) ==
  /\ ~crashed
  /\ pc[e] = "logout"
  /\ clients' = IF hid[e] \in clients /\ ~deleted THEN clients ELSE clients \ {hid[e]}
  /\ hafter' = [hafter EXCEPT ![e] = "return"]
  /\ Return(e)
  /\ UNCHANGED <<cmd, fileStorage, presenceVars, receipts, cacheVars, emitter, nextTask, todo, hargs, workerVars,
                 crashed>>

----------------------------------------------------------------------------
(* The acknowledgement goroutines *)

\* the goroutine r ends: MarkRead was called on the client of its id, and
\* a failure of it only logged, or there was no client
Acknowledge(r, failed) ==
  receipts' = (receipts \ {r})
              \cup {[r EXCEPT !.state = IF r.id \notin clients THEN "dropped"
                                        ELSE IF failed THEN "failed" ELSE "issued"]}

sendDeliveryReceipt(r, failed) ==
  /\ ~crashed
  /\ r \in receipts
  /\ r.kind = "delivered"
  /\ r.state = "started"
  /\ Acknowledge(r, failed)
  /\ UNCHANGED <<cmd, fileStorage, presenceVars, cacheVars, clients, handlerSemaphore, emitter,
                 nextTask, handlerVars, workerVars, crashed>>

\* a read acknowledgement that does not sleep
markAsReadSleep_NoDelay(r) ==
  /\ ~crashed
  /\ r \in receipts
  /\ r.kind = "read"
  /\ r.state = "started"
  /\ Acknowledge(r, FALSE)
  /\ UNCHANGED <<cmd, fileStorage, presenceVars, cacheVars, clients, handlerSemaphore, emitter,
                 nextTask, handlerVars, workerVars, crashed>>

\* time.Sleep(delay) of markAsReadAfterDelay, delay being 8 seconds
markAsReadSleep(r) ==
  /\ ~crashed
  /\ r \in receipts
  /\ r.kind = "read"
  /\ r.state = "started"
  /\ receipts' = (receipts \ {r}) \cup {[r EXCEPT !.state = "slept8"]}
  /\ UNCHANGED <<cmd, fileStorage, presenceVars, cacheVars, clients, handlerSemaphore, emitter,
                 nextTask, handlerVars, workerVars, crashed>>

\* markAsReadAfterDelay after the sleep
markAsReadAfterDelay(r, failed) ==
  /\ ~crashed
  /\ r \in receipts
  /\ r.kind = "read"
  /\ r.state = "slept8"
  /\ Acknowledge(r, failed)
  /\ UNCHANGED <<cmd, fileStorage, presenceVars, cacheVars, clients, handlerSemaphore, emitter,
                 nextTask, handlerVars, workerVars, crashed>>

----------------------------------------------------------------------------
(* startEmitter and sendWebhookWithRetry *)

\* the worker is at the receive of its range loop
WorkerReady(p) == p = "idle"

\* a receive that takes the newest element
Receive_Newest(q) == [task |-> q[Len(q)], rest |-> SubSeq(q, 1, Len(q) - 1)]

\* a receive that leaves the element in the channel
Receive_Peek(q) == [task |-> Head(q), rest |-> q]

\* a receive takes the oldest element of the channel
Receive(q) == [task |-> Head(q), rest |-> Tail(q)]

\* for event := range s.emitter
WorkerReceive ==
  /\ ~crashed
  /\ WorkerReady(wpc)
  /\ emitter # <<>>
  /\ cur' = Receive(emitter).task
  /\ emitter' = Receive(emitter).rest
  /\ takenLog' = Append(takenLog, Receive(emitter).task.id)
  /\ wpc' = "send"
  /\ attempt' = 0
  /\ tries' = 0
  /\ wdelays' = <<>>
  /\ lastErr' = [kind |-> "nil", status |-> 0]
  /\ lastStatusCode' = 0
  /\ wres' = "none"
  /\ UNCHANGED <<cmd, fileStorage, presenceVars, receipts, cacheVars, clients, handlerSemaphore, nextTask, handlerVars, termLog,
                 crashed>>

\* a worker that ends when a task cannot be serialized
WorkerMarshalFails_Stops ==
  /\ ~crashed
  /\ WorkerReady(wpc)
  /\ emitter # <<>>
  /\ cur' = Receive(emitter).task
  /\ emitter' = Receive(emitter).rest
  /\ takenLog' = Append(takenLog, Receive(emitter).task.id)
  /\ termLog' = Append(termLog, Receive(emitter).task.id)
  /\ wpc' = "stopped"
  /\ attempt' = 0
  /\ tries' = 0
  /\ wdelays' = <<>>
  /\ lastErr' = [kind |-> "nil", status |-> 0]
  /\ lastStatusCode' = 0
  /\ wres' = "unserializable"
  /\ UNCHANGED <<cmd, fileStorage, presenceVars, receipts, cacheVars, clients, handlerSemaphore, nextTask, handlerVars,
                 crashed>>

\* a task is received and json.Marshal(event.data) fails: the error is
\* logged and sendWebhookWithRetry returns before its loop, with no attempt
WorkerMarshalFails ==
  /\ ~crashed
  /\ WorkerReady(wpc)
  /\ emitter # <<>>
  /\ cur' = Receive(emitter).task
  /\ emitter' = Receive(emitter).rest
  /\ takenLog' = Append(takenLog, Receive(emitter).task.id)
  /\ termLog' = Append(termLog, Receive(emitter).task.id)
  /\ wpc' = "idle"
  /\ attempt' = 0
  /\ tries' = 0
  /\ wdelays' = <<>>
  /\ lastErr' = [kind |-> "nil", status |-> 0]
  /\ lastStatusCode' = 0
  /\ wres' = "unserializable"
  /\ UNCHANGED <<cmd, fileStorage, presenceVars, receipts, cacheVars, clients, handlerSemaphore, nextTask, handlerVars,
                 crashed>>

\* if attempt > 0 { time.Sleep(retryDelays[attempt-1]) }
WorkerSleep ==
  /\ ~crashed
  /\ wpc = "sleep"
  /\ wdelays' = Append(wdelays, retryDelays[attempt])
  /\ wpc' = "send"
  /\ UNCHANGED <<cmd, fileStorage, presenceVars, receipts, cacheVars, clients, handlerSemaphore, emitter, nextTask, handlerVars,
                 cur, attempt, tries, lastErr, lastStatusCode, wres,
                 takenLog, termLog, crashed>>

\* any 2xx status taken as a success
IsSuccess_Any2xx(status) == status \in 200..299

\* a success test that never returns from the loop
IsSuccess_Never(status) == FALSE

\* resp.StatusCode == http.StatusOK
IsSuccess(status) == status = StatusOK

\* a loop that stops one attempt early
LoopContinues_OffByOne(a) == a < maxRetries

\* for attempt := 0; attempt <= maxRetries; attempt++
LoopContinues(a) == a <= maxRetries

\* one pass of the loop body from the request construction on, and the
\* return that follows it when the task succeeds or the loop ends
WorkerAttempt(o) ==
  /\ ~crashed
  /\ wpc = "send"
  /\ tries' = tries + 1
  /\ lastStatusCode' = IF o.err = "none" THEN o.status ELSE lastStatusCode
  /\ IF o.err = "none" /\ IsSuccess(o.status)
     THEN /\ wres' = "delivered"
          /\ wpc' = "idle"
          /\ termLog' = Append(termLog, cur.id)
          /\ UNCHANGED <<attempt, lastErr>>
     ELSE /\ lastErr' = [kind |-> IF o.err = "none" THEN "status" ELSE o.err,
                         status |-> o.status]
          /\ attempt' = attempt + 1
          /\ IF LoopContinues(attempt + 1)
             THEN /\ wpc' = "sleep"
                  /\ UNCHANGED <<wres, termLog>>
             ELSE /\ wres' = "abandoned"
                  /\ wpc' = "idle"
                  /\ termLog' = Append(termLog, cur.id)
  /\ UNCHANGED <<cmd, fileStorage, presenceVars, receipts, cacheVars, clients, handlerSemaphore, emitter, nextTask, handlerVars,
                 cur, wdelays, takenLog, crashed>>

----------------------------------------------------------------------------
(* Time and the collaborators of the cache *)

Tick ==
  /\ ~crashed
  /\ clock < MaxClock
  /\ clock' = clock + 1
  /\ UNCHANGED <<cmd, fileStorage, presenceVars, receipts, repo, instanceCache, storedAt, clients, handlerSemaphore, emitter,
                 nextTask, handlerVars, workerVars, crashed>>

\* the owner of an instance changes the subscribed events of its row
RepoUpdate(id, evs) ==
  /\ ~crashed
  /\ repo[id] # NoInstance
  /\ repo[id].Events # evs
  /\ repo' = [repo EXCEPT ![id].Events = evs]
  /\ UNCHANGED <<cmd, fileStorage, presenceVars, receipts, instanceCache, clock, storedAt, clients, handlerSemaphore, emitter,
                 nextTask, handlerVars, workerVars, crashed>>

\* the periodic sweep of the cache evicts the expired items
DeleteExpired ==
  /\ ~crashed
  /\ \E id \in Ids : instanceCache[id].found /\ clock > instanceCache[id].exp
  /\ instanceCache' =
       [id \in Ids |->
          IF instanceCache[id].found /\ clock > instanceCache[id].exp
          THEN NoItem ELSE instanceCache[id]]
  /\ UNCHANGED <<cmd, fileStorage, presenceVars, receipts, repo, clock, storedAt, clients, handlerSemaphore, emitter, nextTask,
                 handlerVars, workerVars, crashed>>

----------------------------------------------------------------------------
(* The always-online flags and keepAlwaysOnlineManager *)

otherVars ==
  <<cacheVars, clients, handlerSemaphore, emitter, nextTask, handlerVars, workerVars,
    crashed, receipts, fileStorage, cmd>>

\* an enable that stores nothing
enableAlwaysOnline_NoStore(id) ==
  /\ ~crashed
  /\ flagOp' = [flagOp EXCEPT ![id] = "enable"]
  /\ UNCHANGED <<alwaysOnlineIDs, instanceIDs, ranged, spc, bpc, otherVars>>

\* s.alwaysOnlineIDs.Store(id, true)
enableAlwaysOnline(id) ==
  /\ ~crashed
  /\ alwaysOnlineIDs' = alwaysOnlineIDs \cup {id}
  /\ flagOp' = [flagOp EXCEPT ![id] = "enable"]
  /\ UNCHANGED <<instanceIDs, ranged, spc, bpc, otherVars>>

\* a disable that deletes nothing
disableAlwaysOnline_NoDelete(id) ==
  /\ ~crashed
  /\ flagOp' = [flagOp EXCEPT ![id] = "disable"]
  /\ UNCHANGED <<alwaysOnlineIDs, instanceIDs, ranged, spc, bpc, otherVars>>

\* s.alwaysOnlineIDs.Delete(id)
disableAlwaysOnline(id) ==
  /\ ~crashed
  /\ alwaysOnlineIDs' = alwaysOnlineIDs \ {id}
  /\ flagOp' = [flagOp EXCEPT ![id] = "disable"]
  /\ UNCHANGED <<instanceIDs, ranged, spc, bpc, otherVars>>

\* the manager calls processAlwaysOnlineInstances, at once when it starts
\* and then on each tick of the ticker: var instanceIDs []string, and the
\* Range begins
keepAlwaysOnlineManager ==
  /\ ~crashed
  /\ spc \in {"startup", "tick"}
  /\ spc' = "range"
  /\ instanceIDs' = {}
  /\ ranged' = {}
  /\ UNCHANGED <<alwaysOnlineIDs, bpc, flagOp, otherVars>>

\* one call of the function given to s.alwaysOnlineIDs.Range, which visits
\* each key once while the map may change under it
RangeStep(id) ==
  /\ ~crashed
  /\ spc = "range"
  /\ id \notin ranged
  /\ ranged' = ranged \cup {id}
  /\ instanceIDs' = IF id \in alwaysOnlineIDs THEN instanceIDs \cup {id} ELSE instanceIDs
  /\ UNCHANGED <<alwaysOnlineIDs, spc, bpc, flagOp, otherVars>>

\* the Range is over: return on an empty batch, else wg.Add(1) and start
\* one goroutine for each id
processAlwaysOnlineInstances ==
  /\ ~crashed
  /\ spc = "range"
  /\ ranged = Ids
  /\ IF instanceIDs = {}
     THEN spc' = "tick" /\ bpc' = [id \in Ids |-> "-"]
     ELSE /\ spc' = "batch"
          /\ bpc' = [id \in Ids |-> IF id \in instanceIDs THEN "start" ELSE "-"]
  /\ UNCHANGED <<alwaysOnlineIDs, instanceIDs, ranged, flagOp, otherVars>>

\* the goroutines of the batch that hold a slot of its semaphore
InPool == {id \in Ids : bpc[id] \in {"load", "absent", "present"}}

\* a semaphore that never blocks
PoolHasRoom_Always(n) == TRUE

\* a send on semaphore proceeds while fewer than its capacity are held
PoolHasRoom(n) == n < PresencePoolSize

\* semaphore <- struct{}{}; the deferred receive follows the return of the
\* goroutine, in PresenceDelete and PresenceSend
PresenceAcquire(id) ==
  /\ ~crashed
  /\ bpc[id] = "start"
  /\ PoolHasRoom(Cardinality(InPool))
  /\ bpc' = [bpc EXCEPT ![id] = "load"]
  /\ UNCHANGED <<alwaysOnlineIDs, instanceIDs, ranged, spc, flagOp, otherVars>>

\* a Load that takes every id for registered
PresenceLoad_NoAbsenceTest(id) ==
  /\ ~crashed
  /\ bpc[id] = "load"
  /\ bpc' = [bpc EXCEPT ![id] = "present"]
  /\ UNCHANGED <<alwaysOnlineIDs, instanceIDs, ranged, spc, flagOp, otherVars>>

\* client, ok := s.clients.Load(instanceID)
PresenceLoad(id) ==
  /\ ~crashed
  /\ bpc[id] = "load"
  /\ bpc' = [bpc EXCEPT ![id] = IF id \in clients THEN "present" ELSE "absent"]
  /\ UNCHANGED <<alwaysOnlineIDs, instanceIDs, ranged, spc, flagOp, otherVars>>

\* the client does not exist any more: s.alwaysOnlineIDs.Delete(instanceID)
PresenceDelete(id) ==
  /\ ~crashed
  /\ bpc[id] = "absent"
  /\ alwaysOnlineIDs' = alwaysOnlineIDs \ {id}
  /\ bpc' = [bpc EXCEPT ![id] = "cleared"]
  /\ UNCHANGED <<instanceIDs, ranged, spc, flagOp, otherVars>>

\* a goroutine that drops the flag of a client it skips or fails to reach
PresenceSend_DropFlag(id, connected, failed) ==
  /\ ~crashed
  /\ bpc[id] = "present"
  /\ bpc' = [bpc EXCEPT ![id] = IF ~connected THEN "skipped"
                                ELSE IF failed THEN "failed" ELSE "sent"]
  /\ alwaysOnlineIDs' = IF ~connected \/ failed THEN alwaysOnlineIDs \ {id}
                        ELSE alwaysOnlineIDs
  /\ UNCHANGED <<instanceIDs, ranged, spc, flagOp, otherVars>>

\* the loaded client: skipped unless IsConnected() and IsLoggedIn(), else
\* SendPresence(PresenceAvailable), whose error is only logged
PresenceSend(id, connected, failed) ==
  /\ ~crashed
  /\ bpc[id] = "present"
  /\ bpc' = [bpc EXCEPT ![id] = IF ~connected THEN "skipped"
                                ELSE IF failed THEN "failed" ELSE "sent"]
  /\ UNCHANGED <<alwaysOnlineIDs, instanceIDs, ranged, spc, flagOp, otherVars>>

\* a Wait that returns at once
PresenceWait_NoWait ==
  /\ ~crashed
  /\ spc = "batch"
  /\ spc' = "tick"
  /\ UNCHANGED <<alwaysOnlineIDs, instanceIDs, ranged, bpc, flagOp, otherVars>>

\* wg.Wait() returns once every goroutine of the batch is done, and the
\* manager goes back to its ticker
PresenceWait ==
  /\ ~crashed
  /\ spc = "batch"
  /\ \A id \in instanceIDs : bpc[id] \in {"cleared", "skipped", "failed", "sent"}
  /\ spc' = "tick"
  /\ UNCHANGED <<alwaysOnlineIDs, instanceIDs, ranged, bpc, flagOp, otherVars>>

----------------------------------------------------------------------------
(* Specifications *)

\* the router: concurrent calls under the limiter, feeding the channel
Next ==
  \/ \E e \in Calls, id \in Ids : HandleCall(e, id)
  \/ \E e \in Calls : GetInstanceCached(e)
  \/ \E e \in Calls, failed \in BOOLEAN : LookupReturn(e, failed)
  \/ \E e \in Calls, evt \in RouterEvents : SwitchStep(e, evt)
  \/ \E e \in Calls : Emit(e)
  \/ \E e \in Calls, deleted \in BOOLEAN : LogoutDelete(e, deleted)
  \/ WorkerReceive
  \/ \E o \in ResponseOutcomes : WorkerAttempt(o)

Spec == Init /\ [][Next]_vars

\* the scheduling of the goroutines: a goroutine that can run does run, the
\* calls it makes return, and a sender waiting on s.emitter is served when
\* room comes back again and again (the channel queues its waiting senders);
\* nothing makes the session runtimes call Handle
Fairness ==
  /\ \A e \in Calls : WF_vars(GetInstanceCached(e))
  /\ \A e \in Calls : WF_vars(\E failed \in BOOLEAN : LookupReturn(e, failed))
  /\ \A e \in Calls : WF_vars(\E evt \in RouterEvents : SwitchStep(e, evt))
  /\ \A e \in Calls : SF_vars(Emit(e))
  /\ \A e \in Calls : WF_vars(\E deleted \in BOOLEAN : LogoutDelete(e, deleted))
  /\ WF_vars(WorkerReceive)
  /\ WF_vars(\E o \in ResponseOutcomes : WorkerAttempt(o))

SpecLive == Init /\ [][Next]_vars /\ Fairness

\* the subscription sets of instance "a" in the switch specification: none,
\* each kind alone, all
SwitchSubscriptions == {{}, EventKinds} \cup {{k} : k \in EventKinds}

\* one call at a time, over every raw event and every configuration of
\* instance "a"
InitSwitch ==
  /\ repo \in {[id \in Ids |->
                  CASE id = "a" -> Instance("a", evs, gi, rm, so, FALSE)
                    [] id = "b" -> Instance("b", EventKinds, FALSE, TRUE, FALSE, FALSE)
                    [] OTHER -> NoInstance] : evs \in SwitchSubscriptions, gi \in BOOLEAN, rm \in BOOLEAN,
                                              so \in BOOLEAN}
  /\ InitCommon

NextSwitch ==
  \/ \E id \in Ids, evt \in RawEvents : HandleEvent(1, id, evt)
  \/ GetInstanceCached(1)
  \/ \E failed \in BOOLEAN : LookupReturn(1, failed)
  \/ hargs[1] # NoArgs /\ SwitchStep(1, hargs[1].evt)
  \/ Emit(1)
  \/ \E deleted \in BOOLEAN : LogoutDelete(1, deleted)
  \/ \E r \in receipts, failed \in BOOLEAN : sendDeliveryReceipt(r, failed)
  \/ \E r \in receipts : markAsReadSleep(r)
  \/ \E r \in receipts, failed \in BOOLEAN : markAsReadAfterDelay(r, failed)
  \/ WorkerReceive
  \/ \E o \in ResponseOutcomes : WorkerAttempt(o)

SpecSwitch == InitSwitch /\ [][NextSwitch]_vars

\* the delivery worker under every outcome of an attempt, fed by message
\* events
NextDeliver ==
  \/ \E e \in Calls, id \in KnownIds : HandleCall(e, id)
  \/ \E e \in Calls : GetInstanceCached(e)
  \/ \E e \in Calls : LookupReturn(e, FALSE)
  \/ \E e \in Calls, evt \in DeliverEvents : SwitchStep(e, evt)
  \/ \E e \in Calls : Emit(e)
  \/ WorkerReceive
  \/ WorkerSleep
  \/ \E o \in Outcomes : WorkerAttempt(o)

InitDeliver ==
  /\ repo = [id \in Ids |->
               IF id \in KnownIds THEN Instance(id, EventKinds, FALSE, FALSE, FALSE, FALSE)
               ELSE NoInstance]
  /\ InitCommon

SpecDeliver == InitDeliver /\ [][NextDeliver]_vars

\* the worker under every outcome of a task, a payload that cannot be
\* serialized included
NextDrain ==
  \/ NextDeliver
  \/ WorkerMarshalFails

SpecDrain == InitDeliver /\ [][NextDrain]_vars

\* the cache under elapsing time and external updates, fed by events of a
\* type the switch ignores
InitCache ==
  /\ repo = [id \in Ids |->
               IF id \in KnownIds THEN Instance(id, {}, FALSE, FALSE, FALSE, FALSE) ELSE NoInstance]
  /\ InitCommon

NextCache ==
  \/ \E e \in Calls, id \in Ids : HandleCall(e, id)
  \/ \E e \in Calls : GetInstanceCached(e)
  \/ \E e \in Calls, failed \in BOOLEAN : LookupReturn(e, failed)
  \/ \E e \in Calls : SwitchStep(e, [type |-> "Unknown"])
  \/ Tick
  \/ \E evs \in Subscriptions : RepoUpdate("a", evs)
  \/ DeleteExpired

SpecCache == InitCache /\ [][NextCache]_vars

\* the presence scheduler beside the callers of enable and disable and one
\* handler call at a time, whose event is a logout or a message
PresenceEvents ==
  {[type |-> "LoggedOut"],
   [type |-> "Message", chat |-> "user", fromMe |-> TRUE, body |-> TRUE,
    media |-> NoMedia]}

NextPresence ==
  \/ \E id \in Ids : enableAlwaysOnline(id)
  \/ \E id \in Ids : disableAlwaysOnline(id)
  \/ keepAlwaysOnlineManager
  \/ \E id \in Ids : RangeStep(id)
  \/ processAlwaysOnlineInstances
  \/ \E id \in Ids : PresenceAcquire(id)
  \/ \E id \in Ids : PresenceLoad(id)
  \/ \E id \in Ids : PresenceDelete(id)
  \/ \E id \in Ids, connected \in BOOLEAN, failed \in BOOLEAN : PresenceSend(id, connected, failed)
  \/ PresenceWait
  \/ \E id \in KnownIds : HandleCall(1, id)
  \/ GetInstanceCached(1)
  \/ LookupReturn(1, FALSE)
  \/ \E evt \in PresenceEvents : SwitchStep(1, evt)
  \/ Emit(1)
  \/ \E deleted \in BOOLEAN : LogoutDelete(1, deleted)

SpecPresence == Init /\ [][NextPresence]_vars

\* a session connects: its handle is inserted in the registry
Connect(id) ==
  /\ ~crashed
  /\ id \notin clients
  /\ clients' = clients \cup {id}
  /\ UNCHANGED <<cmd, fileStorage, presenceVars, receipts, cacheVars, handlerSemaphore, emitter,
                 nextTask, handlerVars, workerVars, crashed>>

\* the presence scheduler beside sessions that log out and connect again
NextConnect ==
  \/ NextPresence
  \/ \E id \in KnownIds : Connect(id)

SpecConnect == Init /\ [][NextConnect]_vars

\* the media relay: one call at a time handling a message with an
\* attachment, under every outcome of the relay, for an instance "a" that
\* inlines media or not and a service with a blob storage or without
MediaEvents ==
  [type : {"Message"}, chat : {"user"}, fromMe : BOOLEAN, body : {TRUE}, media : Media]

InitMedia ==
  /\ repo \in {[id \in Ids |->
                  CASE id = "a" -> Instance("a", evs, FALSE, FALSE, FALSE, b64)
                    [] id = "b" -> Instance("b", EventKinds, FALSE, TRUE, FALSE, TRUE)
                    [] OTHER -> NoInstance] :
                 evs \in {EventKinds, {WookConnectionUpdate}}, b64 \in BOOLEAN}
  /\ fileStorage \in BOOLEAN
  /\ InitPipeline

NextMedia ==
  \/ \E id \in KnownIds, evt \in MediaEvents : HandleEvent(1, id, evt)
  \/ GetInstanceCached(1)
  \/ LookupReturn(1, FALSE)
  \/ hargs[1] # NoArgs /\ SwitchStep(1, hargs[1].evt)
  \/ Emit(1)
  \/ \E r \in receipts, failed \in BOOLEAN : sendDeliveryReceipt(r, failed)
  \/ \E r \in receipts : markAsReadSleep(r)
  \/ \E r \in receipts, failed \in BOOLEAN : markAsReadAfterDelay(r, failed)
  \/ WorkerReceive
  \/ \E o \in ResponseOutcomes : WorkerAttempt(o)

SpecMedia == InitMedia /\ [][NextMedia]_vars

\* the acknowledgements beside the handlers that started them and a logout
\* that removes the client: calls with their event, "a" reading messages or
\* not
AckEvents ==
  {[type |-> "Message", chat |-> "user", fromMe |-> FALSE, body |-> TRUE,
    media |-> NoMedia],
   [type |-> "Message", chat |-> "user", fromMe |-> TRUE, body |-> TRUE,
    media |-> NoMedia],
   [type |-> "Message", chat |-> "user", fromMe |-> FALSE, body |-> FALSE,
    media |-> NoMedia],
   [type |-> "LoggedOut"]}

InitAck ==
  /\ repo \in {[id \in Ids |->
                  CASE id = "a" -> Instance("a", EventKinds, FALSE, rm, FALSE, FALSE)
                    [] id = "b" -> Instance("b", EventKinds, FALSE, TRUE, FALSE, FALSE)
                    [] OTHER -> NoInstance] : rm \in BOOLEAN}
  /\ InitCommon

\* two calls are enough for a logout to overtake an acknowledgement
AckCalls == {1, 2}

NextAck ==
  \/ \E e \in AckCalls, evt \in AckEvents : HandleEvent(e, "a", evt)
  \/ \E e \in AckCalls : GetInstanceCached(e)
  \/ \E e \in AckCalls : LookupReturn(e, FALSE)
  \/ \E e \in AckCalls : hargs[e] # NoArgs /\ SwitchStep(e, hargs[e].evt)
  \/ \E e \in AckCalls : Emit(e)
  \/ \E e \in AckCalls : LogoutDelete(e, TRUE)
  \/ \E r \in receipts, failed \in BOOLEAN : sendDeliveryReceipt(r, failed)
  \/ \E r \in receipts : markAsReadSleep(r)
  \/ \E r \in receipts, failed \in BOOLEAN : markAsReadAfterDelay(r, failed)

SpecAck == InitAck /\ [][NextAck]_vars

----------------------------------------------------------------------------
(* Two events of one instance *)

\* a message and a receipt: their notifications differ in kind
OrderEvents ==
  {[type |-> "Message", chat |-> "user", fromMe |-> TRUE, body |-> TRUE,
    media |-> NoMedia],
   [type |-> "Receipt", chat |-> "user", rtype |-> "read", n |-> 1]}

\* the two calls, made in this order by the session runtime of "b"
OrderCalls == {1, 2}

NextOrder ==
  \/ \E e \in OrderCalls, evt \in OrderEvents : HandleEvent(e, "b", evt)
  \/ \E e \in OrderCalls : GetInstanceCached(e)
  \/ \E e \in OrderCalls : LookupReturn(e, FALSE)
  \/ \E e \in OrderCalls : hargs[e] # NoArgs /\ SwitchStep(e, hargs[e].evt)
  \/ \E e \in OrderCalls : Emit(e)
  \/ WorkerReceive
  \/ \E o \in ResponseOutcomes : WorkerAttempt(o)

SpecOrder == Init /\ [][NextOrder]_vars

----------------------------------------------------------------------------
(* The command operations *)

\* the operations that make one call to the session runtime
DirectOps ==
  {"ReadMessage", "ChatPresence", "DeleteChat", "ArchiveChat", "SendText",
   "SendMissedCall"}

\* SendReaction: the operation that validates its request first
CheckedOps == {"SendReaction"}

\* the operations that fetch a file and upload it before they send
MediaOps == {"SendAudio", "SendDocument", "SendImage", "SendVideo"}

CommandOps == DirectOps \cup CheckedOps \cup MediaOps

\* the call to the session runtime that ends the operation
RuntimeCallOf(op) ==
  CASE op = "ReadMessage" -> "MarkRead"
    [] op = "ChatPresence" -> "SendChatPresence"
    [] op \in {"DeleteChat", "ArchiveChat"} -> "SendAppState"
    [] OTHER -> "SendMessage"

\* the calls to the session runtime
RuntimeCalls == {"MarkRead", "SendChatPresence", "SendAppState", "Upload", "SendMessage"}

\* a lookup that takes every id for a registered one
CommandLoad_NoCheck(id) == TRUE

\* s.clients.Load(id): ok
CommandLoad(id) == id \in clients

\* the operation is called: without a handle it returns ErrClientIsNil
\* at once, else it goes on with the handle it loaded
CommandCall(op, id) ==
  /\ ~crashed
  /\ cmd.pc \in {"idle", "done"}
  /\ cmd' = IF ~CommandLoad(id)
            THEN [op |-> op, id |-> id, pc |-> "done", calls |-> <<>>,
                  failed |-> FALSE, result |-> "ErrClientIsNil"]
            ELSE [op |-> op, id |-> id,
                  pc |-> CASE op \in MediaOps -> "prepare"
                           [] op \in CheckedOps -> "prepare"
                           [] OTHER -> "runtime",
                  calls |-> <<>>, failed |-> FALSE, result |-> "-"]
  /\ UNCHANGED <<fileStorage, presenceVars, receipts, cacheVars, clients, handlerSemaphore,
                 emitter, nextTask, handlerVars, workerVars, crashed>>

\* the work before the first call to the session runtime: the checks of
\* SendReaction, the fetch and the conversion of a file; its error is
\* returned
CommandPrepare(failed) ==
  /\ ~crashed
  /\ cmd.pc = "prepare"
  /\ cmd' = IF failed
            THEN [cmd EXCEPT !.pc = "done", !.result = "err"]
            ELSE [cmd EXCEPT !.pc = IF cmd.op \in MediaOps THEN "upload" ELSE "runtime"]
  /\ UNCHANGED <<fileStorage, presenceVars, receipts, cacheVars, clients, handlerSemaphore,
                 emitter, nextTask, handlerVars, workerVars, crashed>>

\* a step that calls the runtime again after a failure
CommandRuntimeStep_Retry(call, next, failed) ==
  /\ cmd' = [cmd EXCEPT !.calls = Append(cmd.calls, call),
                        !.failed = failed,
                        !.pc = IF failed THEN cmd.pc ELSE next,
                        !.result = IF next = "done" /\ ~failed THEN "ok" ELSE cmd.result]

\* one call to the session runtime: its error is returned at once
CommandRuntimeStep(call, next, failed) ==
  /\ cmd' = [cmd EXCEPT !.calls = Append(cmd.calls, call),
                        !.failed = failed,
                        !.pc = IF failed THEN "done" ELSE next,
                        !.result = CASE failed -> "err"
                                     [] next = "done" -> "ok"
                                     [] OTHER -> cmd.result]

\* client.Upload of a media operation
CommandUpload(failed) ==
  /\ ~crashed
  /\ cmd.pc = "upload"
  /\ CommandRuntimeStep("Upload", "runtime", failed)
  /\ UNCHANGED <<fileStorage, presenceVars, receipts, cacheVars, clients, handlerSemaphore,
                 emitter, nextTask, handlerVars, workerVars, crashed>>

\* the last call of the operation: MarkRead, SendChatPresence, SendAppState
\* or SendMessage
CommandRuntime(failed) ==
  /\ ~crashed
  /\ cmd.pc = "runtime"
  /\ CommandRuntimeStep(RuntimeCallOf(cmd.op), "done", failed)
  /\ UNCHANGED <<fileStorage, presenceVars, receipts, cacheVars, clients, handlerSemaphore,
                 emitter, nextTask, handlerVars, workerVars, crashed>>

\* the command operations beside a logout that removes the client of "a"
CommandEvents == {[type |-> "LoggedOut"]}

NextCommand ==
  \/ \E op \in CommandOps, id \in Ids : CommandCall(op, id)
  \/ \E failed \in BOOLEAN : CommandPrepare(failed)
  \/ \E failed \in BOOLEAN : CommandUpload(failed)
  \/ \E failed \in BOOLEAN : CommandRuntime(failed)
  \/ \E evt \in CommandEvents : HandleEvent(1, "a", evt)
  \/ GetInstanceCached(1)
  \/ LookupReturn(1, FALSE)
  \/ hargs[1] # NoArgs /\ SwitchStep(1, hargs[1].evt)
  \/ Emit(1)
  \/ LogoutDelete(1, TRUE)

SpecCommand == Init /\ [][NextCommand]_vars

----------------------------------------------------------------------------
(* Properties *)

Range(f) == {f[i] : i \in DOMAIN f}

NoDuplicates(f) == \A i, j \in DOMAIN f : f[i] = f[j] => i = j

\* positions of a call between taking its slot and giving it back
InFlight == {e \in Calls : pc[e] \notin {"new", "done", "panic"}}

FilteredKinds == {WookMessagesUpsert, WookMessagesUpdate, WookContactsUpsert}

\* the payloads built and the tasks queued or being delivered
BuiltPayloads ==
  {emitter[i].data : i \in 1..Len(emitter)}
  \cup UNION {Range(todo[e]) : e \in Calls}
  \cup (IF cur = NoTask THEN {} ELSE {cur.data})

\* C1: a notification of kind MESSAGES_UPSERT, MESSAGES_UPDATE or
\* CONTACTS_UPSERT is built and enqueued for an instance only if that kind is
\* in the instance's subscribed event set; with an empty set none is.
C1_SubscriptionFilter ==
  \A p \in BuiltPayloads :
    p.event \in FilteredKinds => p.event \in repo[p.instance].Events

\* a message notification of instance "a", subscribed to it, is in the queue
C1_Witness ==
  /\ repo["a"].Events = {WookMessagesUpsert}
  /\ \E i \in 1..Len(emitter) :
       emitter[i].data.instance = "a" /\ emitter[i].data.event = WookMessagesUpsert

\* C2: the number of handler bodies holding a slot never exceeds the capacity
\* of the limiter, and a Handle call gets past the acquisition only while
\* fewer than capacity handlers are in flight.
C2_LimiterBound ==
  /\ [](Cardinality(InFlight) <= HandlerSemaphoreSize)
  /\ [][\A e \in Calls :
          (pc[e] = "new" /\ pc'[e] # "new")
            => Cardinality(InFlight) < HandlerSemaphoreSize]_vars

\* the limiter is saturated and a further call is waiting
C2_Witness ==
  /\ Cardinality(InFlight) = HandlerSemaphoreSize
  /\ \E e \in Calls : pc[e] = "new"

\* C3: a task is abandoned only after exactly 4 failed attempts, with no
\* sleep before the 1st and sleeps of 2s, 5s and 10s before the 2nd, 3rd and
\* 4th; no task ever gets a 5th attempt.
C3_RetryExhaustion ==
  /\ tries <= 4
  /\ wdelays = SubSeq(<<2, 5, 10>>, 1, Len(wdelays))
  /\ wpc = "send" => Len(wdelays) = tries
  /\ wpc = "sleep" => Len(wdelays) = tries - 1 /\ tries < 4
  /\ wres = "abandoned" => tries = 4 /\ wdelays = <<2, 5, 10>>

\* a task was abandoned after its 4th failure
C3_Witness == wpc = "idle" /\ wres = "abandoned" /\ tries = 4

\* C4: the attempt that gets status 200 ends the task as delivered, with as
\* many attempts as sleeps plus one, and nothing more is slept or attempted
\* for that task afterwards.
C4_StopOnFirstSuccess ==
  /\ [][(tries' = tries + 1 /\ lastStatusCode' = 200)
          => (wres' = "delivered" /\ wpc' = "idle" /\ tries' = Len(wdelays') + 1)]_vars
  /\ [][(wres = "delivered" /\ takenLog' = takenLog)
          => (tries' = tries /\ wdelays' = wdelays /\ wres' = wres)]_vars

\* a task was delivered by its 2nd attempt, after one sleep of 2s
C4_Witness == wres = "delivered" /\ tries = 2 /\ wdelays = <<2>>

\* C5: an attempt ends the task as delivered if and only if it got status
\* 200; any other outcome uses up one of the 4 attempts and is followed by a
\* retry while attempts remain, by abandonment otherwise.
C5_SuccessCriterion ==
  [][tries' = tries + 1
       => /\ (wres' = "delivered") <=> (lastStatusCode' = 200)
          /\ wres' # "delivered"
               => /\ lastErr'.kind \in {"create", "send", "status"}
                  /\ IF tries' < 4 THEN wpc' = "sleep" /\ wres' = "none"
                     ELSE wpc' = "idle" /\ wres' = "abandoned"]_vars

\* a 201 response used up the 1st attempt and a retry is pending
C5_Witness ==
  wpc = "sleep" /\ tries = 1 /\ lastStatusCode = 201 /\ lastErr.kind = "status"

\* C6: every task is received by the worker at most once and reaches at most
\* one terminal outcome; a task that was received is never on the queue
\* again, so it gets at most 4 attempts.
C6_ExactlyOnce ==
  /\ NoDuplicates(takenLog)
  /\ NoDuplicates(termLog)
  /\ Range(termLog) \subseteq Range(takenLog)
  /\ \A i \in 1..Len(emitter) : emitter[i].id \notin Range(takenLog)
  /\ tries <= 4
  /\ wpc = "idle" => Range(termLog) = Range(takenLog)

\* a task was abandoned and the worker went on to a later task
C6_Witness ==
  /\ Len(termLog) >= 2
  /\ wres = "abandoned"
  /\ Len(takenLog) = Len(termLog)

\* C7: tasks are received in the order they were sent on the channel, and
\* a task is received only after the task before it reached its terminal
\* outcome: at most one task is being delivered.
C7_SerializedFifo ==
  /\ [](/\ \A i \in 1..Len(takenLog) : takenLog[i] = i
        /\ \A i \in 1..Len(emitter) : emitter[i].id = Len(takenLog) + i
        /\ Len(takenLog) - Len(termLog) \in {0, 1}
        /\ termLog = SubSeq(takenLog, 1, Len(termLog)))
  /\ [][Len(takenLog') > Len(takenLog) => Len(termLog) = Len(takenLog)]_vars

\* two tasks of different instances wait while a first one is retried
C7_Witness ==
  /\ wpc = "sleep"
  /\ Len(emitter) = 2
  /\ emitter[1].data.instance # emitter[2].data.instance

\* C8: the channel never holds more tasks than its capacity, a send happens
\* only while there is room, and every task sent is on the channel or was
\* received by the worker.
C8_BoundedQueue ==
  /\ [](/\ Len(emitter) <= EmitterBufferSize
        /\ Len(emitter) + Len(takenLog) = nextTask
        /\ {emitter[i].id : i \in 1..Len(emitter)} \cup Range(takenLog) = 1..nextTask)
  /\ [][Len(emitter') > Len(emitter) => Len(emitter) < EmitterBufferSize]_vars

\* the channel is full and a handler waits to send
C8_Witness ==
  /\ Len(emitter) = EmitterBufferSize
  /\ \E e \in Calls : pc[e] = "emit"

\* a call e finishes the cache read of getInstanceCached in this step
GetStep(e) == pc[e] \in {"get", "cu_get"} /\ pc'[e] # pc[e]

\* C9: a get issued less than the TTL (5 min) after the latest store of its
\* id returns the cached instance without a lookup; a get issued more than
\* the TTL after it issues a lookup, and a lookup that finds the row stores
\* it with an expiration one TTL ahead.
C9_CacheHitExpiry ==
  [][\A e \in Calls :
       /\ (GetStep(e) /\ storedAt[hid[e]] >= 0 /\ clock < storedAt[hid[e]] + 5)
            => /\ pc'[e] \notin {"lookup", "cu_lookup"}
               /\ hinst'[e] = instanceCache[hid[e]].val
       /\ (GetStep(e) /\ storedAt[hid[e]] >= 0 /\ clock > storedAt[hid[e]] + 5)
            => pc'[e] \in {"lookup", "cu_lookup"}
       /\ (pc[e] = "lookup" /\ pc'[e] = "switch")
            => /\ instanceCache'[hid[e]].found
               /\ instanceCache'[hid[e]].val = repo[hid[e]]
               /\ instanceCache'[hid[e]].exp = clock + 5]_vars

\* a get after the TTL of an earlier store waits for its lookup, while
\* another call holds the instance it got for the same id
C9_Witness ==
  \E e1, e2 \in Calls :
    /\ pc[e1] = "lookup"
    /\ storedAt[hid[e1]] >= 0
    /\ clock > storedAt[hid[e1]] + 5
    /\ pc[e2] = "switch"
    /\ hid[e2] = hid[e1]

\* C10: a lookup that returns ends either with the row found and stored or
\* with not-found and nothing stored, the handler returning and releasing
\* its slot; it never crashes the process.
C10_LookupFailureDrops ==
  [][\A e \in Calls :
       (pc[e] = "lookup" /\ pc'[e] # "lookup")
         => /\ ~crashed'
            /\ pc'[e] \in {"switch", "done"}
            /\ pc'[e] = "done"
                 => (instanceCache' = instanceCache /\ hinst'[e] = NoInstance)]_vars

\* C11: the slot a call acquired is released exactly once, by the step in
\* which its handler returns, whatever the exit path; the number of slots
\* held equals the number of handlers in flight and is never negative.
C11_SlotRelease ==
  /\ [](handlerSemaphore = Cardinality(InFlight) /\ handlerSemaphore >= 0)
  /\ [][\A e \in Calls :
          /\ (e \in InFlight /\ pc'[e] \in {"done", "panic"})
               => handlerSemaphore' = handlerSemaphore - 1
          /\ pc[e] \in {"done", "panic"} => pc'[e] = pc[e]]_vars
  /\ [][handlerSemaphore' < handlerSemaphore
          => \E e \in Calls : e \in InFlight /\ pc'[e] \in {"done", "panic"}]_vars

\* every call returned, one after an enqueue and one after a logged-out
\* event that removed the client, and no slot is held
C11_Witness ==
  /\ \A e \in Calls : pc[e] = "done"
  /\ handlerSemaphore = 0
  /\ nextTask = 1
  /\ clients # KnownIds

\* call e was made with an event of type t
IsCallOf(e, t) == IF hargs[e] = NoArgs THEN FALSE ELSE hargs[e].evt.type = t

\* the notifications of instance id that are built, queued or being delivered
PayloadsOf(id) == {p \in BuiltPayloads : p.instance = id}

ClosedNotified(id) ==
  \E p \in PayloadsOf(id) :
    p.event = WookConnectionUpdate /\ p.Data = [Status |-> "close"]

\* call e handled a logged-out event of a known instance up to the end of
\* emitConnectionUpdate
LoggedOutHandled(e) ==
  /\ IsCallOf(e, "LoggedOut")
  /\ repo[hargs[e].id] # NoInstance
  /\ pc[e] \in {"logout", "done"}

\* C13 as claimed: once a logged-out event of a known instance is handled,
\* a connection-status notification with status close was enqueued for it,
\* whatever its subscription.
C13_AlwaysNotifies ==
  \A e \in Calls : LoggedOutHandled(e) => ClosedNotified(hargs[e].id)

\* C13 amended: once a logged-out event of a known instance is handled, a
\* connection-status notification with status close was enqueued for it if
\* and only if the instance subscribes to CONNECTION_UPDATE.
C13_NotifiesSubscribers ==
  \A e \in Calls :
    LoggedOutHandled(e)
      => (ClosedNotified(hargs[e].id)
            <=> WookConnectionUpdate \in repo[hargs[e].id].Events)

\* the logged-out event of "a", subscribed to CONNECTION_UPDATE only, was
\* handled and its notification is on the channel
C13_Witness ==
  /\ LoggedOutHandled(1)
  /\ hargs[1].id = "a"
  /\ repo["a"].Events = {WookConnectionUpdate}
  /\ Len(emitter) = 1
  /\ emitter[1].data.event = WookConnectionUpdate
  /\ emitter[1].data.Data = [Status |-> "close"]

\* C14: once the handler of a logged-out event of a known instance has
\* finished, the registry holds no client for its id, also when the deletion
\* of the device failed.
C14_HandleRemoved ==
  \A e \in Calls :
    (LoggedOutHandled(e) /\ pc[e] = "done") => hargs[e].id \notin clients

----------------------------------------------------------------------------
(* The always-online flags *)

\* the ids the current batch issued a presence command for
PresenceIssued == {id \in Ids : bpc[id] \in {"sent", "failed"}}

\* C15: when the latest of enable(id) and disable(id) to complete before the
\* batch reads the flag of id is disable(id), the batch does not include id,
\* and a batch issues a presence command only for the ids it includes
C15_DisableExcludes ==
  [][\A id \in Ids :
       /\ (id \notin ranged /\ id \in ranged' /\ flagOp[id] = "disable")
            => id \notin instanceIDs'
       /\ (id \in PresenceIssued' /\ id \notin PresenceIssued)
            => id \in instanceIDs /\ id \in instanceIDs']_vars

\* a batch is under way that left out "a", disabled after it was enabled,
\* and issued a presence command for "b"
C15_Witness ==
  /\ spc = "batch"
  /\ flagOp["a"] = "disable"
  /\ "a" \notin instanceIDs
  /\ bpc["a"] = "-"
  /\ "b" \in PresenceIssued

\* C16: a batch goroutine that finds no client registered for its id goes on
\* to clear the flag of the id and issues no presence command for it, and the
\* batch does not end before that
C16_AbsentHandleClears ==
  [][\A id \in Ids :
       /\ (bpc[id] = "load" /\ bpc'[id] # "load" /\ id \notin clients)
            => bpc'[id] = "absent"
       /\ (bpc[id] = "absent" /\ bpc'[id] # "absent")
            => bpc'[id] = "cleared" /\ id \notin alwaysOnlineIDs'
       /\ (spc = "batch" /\ spc' = "tick" /\ id \in instanceIDs)
            => bpc[id] \notin {"load", "absent", "present"}]_vars

\* the batch that held "z", enabled with no client registered, is over: the
\* flag of "z" is cleared and no command was issued for it
C16_Witness ==
  /\ spc = "tick"
  /\ flagOp["z"] = "enable"
  /\ "z" \in instanceIDs
  /\ "z" \notin clients
  /\ bpc["z"] = "cleared"
  /\ "z" \notin alwaysOnlineIDs
  /\ "z" \notin PresenceIssued

\* C17: the flag of an id is set or unset; a step that sets it is a call of
\* enable(id) and changes nothing else, a step that unsets it is a call of
\* disable(id) changing nothing else or the step of the batch goroutine that
\* found no client for id; the steps of the handlers, a logout among them,
\* and the batch steps that skip a client or send its presence, failing or
\* not, leave every flag as it is
C17_FlagStateMachine ==
  [][/\ alwaysOnlineIDs' \subseteq Ids
     /\ \A id \in Ids :
          /\ (id \notin alwaysOnlineIDs /\ id \in alwaysOnlineIDs')
               => /\ flagOp'[id] = "enable"
                  /\ UNCHANGED <<instanceIDs, ranged, spc, bpc, otherVars>>
          /\ (id \in alwaysOnlineIDs /\ id \notin alwaysOnlineIDs')
               => \/ /\ flagOp'[id] = "disable"
                     /\ UNCHANGED <<instanceIDs, ranged, spc, bpc, otherVars>>
                  \/ /\ bpc[id] = "absent"
                     /\ bpc'[id] = "cleared"
                     /\ UNCHANGED <<flagOp, otherVars>>
     /\ (otherVars' # otherVars) => alwaysOnlineIDs' = alwaysOnlineIDs
     /\ (\E id \in Ids : bpc[id] = "present" /\ bpc'[id] # "present")
          => alwaysOnlineIDs' = alwaysOnlineIDs]_vars

\* "a" is still flagged after a logout removed its client and "b" after a
\* presence command for it failed
C17_Witness ==
  /\ "a" \in alwaysOnlineIDs
  /\ "a" \notin clients
  /\ pc[1] = "done"
  /\ "b" \in alwaysOnlineIDs
  /\ bpc["b"] = "failed"

----------------------------------------------------------------------------
(* Contact names *)

\* the candidate names of a contact, push name or business name event, in
\* the priority order of its source
NameCandidates(evt) ==
  CASE evt.type = "Contact" -> <<evt.first, evt.full, evt.user>>
    [] evt.type = "PushName" -> <<evt.new, evt.old>>
    [] evt.type = "BusinessName" ->
         <<evt.new, evt.old>>
         \o (IF evt.msg = Nil THEN <<>> ELSE <<evt.msg.PushName, evt.msg.VerifiedName>>)

FirstNonEmpty(candidates) ==
  IF \A i \in DOMAIN candidates : candidates[i] = EmptyName THEN EmptyName
  ELSE candidates[CHOOSE i \in DOMAIN candidates :
                    /\ candidates[i] # EmptyName
                    /\ \A j \in 1..(i - 1) : candidates[j] = EmptyName]

\* C18: the name of the contact in a contact upsert built from a contact,
\* push name or business name event is the first non-empty candidate of the
\* event, in the priority order of its source
C18_FirstNonEmptyName ==
  \A p \in BuiltPayloads :
    (/\ p.event = WookContactsUpsert
     /\ hargs[1] # NoArgs
     /\ hargs[1].evt.type \in {"Contact", "PushName", "BusinessName"})
      => \A c \in p.Data : c.PushName = FirstNonEmpty(NameCandidates(hargs[1].evt))

\* the contacts of the notifications a sequence of payloads carries
ContactsIn(payloads) ==
  UNION {payloads[i].Data : i \in {j \in DOMAIN payloads :
                                     payloads[j].event = WookContactsUpsert}}

\* C19: when the handler of a history sync of push names whose ids all parse
\* leaves its type switch for an instance subscribed to contact upserts, no
\* contact is emitted for a push name that looks like a chat identifier, and
\* a contact is emitted for every other identity of the batch with a
\* non-empty push name
C19_RejectedPerIdentity ==
  [][(/\ IsCallOf(1, "HistorySync")
      /\ pc[1] = "switch"
      /\ pc'[1] # "switch"
      /\ WookContactsUpsert \in hinst[1].Events
      /\ \A k \in DOMAIN hargs[1].evt.pushnames : hargs[1].evt.pushnames[k].ID # "bad"
      /\ hargs[1].evt.conversations = <<>>)
       => \A k \in DOMAIN hargs[1].evt.pushnames :
            LET n == hargs[1].evt.pushnames[k]
            IN IF LooksLikeJid(n.Pushname)
               THEN \A c \in ContactsIn(todo'[1]) : c.PushName # n.Pushname
               ELSE n.Pushname # EmptyName
                      => \E c \in ContactsIn(todo'[1]) : c.RemoteJid = n.ID]_vars

----------------------------------------------------------------------------
(* Unknown instances *)

\* C20: a call handling an event under an id for which the cache and the
\* lookup behind it find no instance never reaches the type switch, an emit
\* or the logout: it leaves no notification, starts no acknowledgement,
\* leaves the registry as it was, and has given its slot back when it is done
C20_UnknownInstanceDrops ==
  (hargs[1] # NoArgs /\ repo[hargs[1].id] = NoInstance)
    => /\ pc[1] \in {"get", "lookup", "done", "panic"}
       /\ todo[1] = <<>>
       /\ PayloadsOf(hargs[1].id) = {}
       /\ BuiltPayloads = {}
       /\ receipts = {}
       /\ clients = KnownIds
       /\ pc[1] = "done" => handlerSemaphore = 0

\* the call that handled a received message under the unknown id "z" is
\* done: nothing is queued or started and no slot is taken
C20_Witness ==
  /\ hargs[1] # NoArgs
  /\ hargs[1].id = "z"
  /\ hargs[1].evt = [type |-> "Message", chat |-> "user", fromMe |-> FALSE, body |-> TRUE,
    media |-> NoMedia]
  /\ repo["z"] = NoInstance
  /\ pc[1] = "done"
  /\ emitter = <<>>
  /\ receipts = {}
  /\ handlerSemaphore = 0

----------------------------------------------------------------------------
(* The media relay *)

\* the message notifications that are built, queued or being delivered
MessagePayloads == {p \in BuiltPayloads : p.event = WookMessagesUpsert}

\* call 1 handles a message with an attachment whose download or upload
\* fails, for a registered instance subscribed to message notifications
RelayFails ==
  /\ IsCallOf(1, "Message")
  /\ hargs[1].evt.media # NoMedia
  /\ hargs[1].evt.media.tmp
  /\ ~hargs[1].evt.media.download \/ ~hargs[1].evt.media.upload
  /\ hargs[1].id \in clients
  /\ WookMessagesUpsert \in repo[hargs[1].id].Events

\* C21: when the download or the upload of a subscribed message's attachment
\* fails the handler does not stop: it builds one message notification and
\* has enqueued exactly one when it is done; a failed download leaves the url
\* and the inlined body empty, a failed upload leaves the url empty; and in
\* every message notification the inlined body is non-empty only for an
\* instance that inlines media and the url only with a blob storage configured
C21_RelayFailureDegrades ==
  /\ RelayFails =>
       /\ pc[1] # "panic"
       /\ pc[1] = "emit" => Len(todo[1]) = 1 /\ todo[1][1].event = WookMessagesUpsert
       /\ pc[1] = "done" => nextTask = 1
       /\ \A p \in MessagePayloads :
            /\ ~hargs[1].evt.media.download
                 => p.Data.Message.MediaURL = "" /\ p.Data.Message.Base64 = ""
            /\ ~hargs[1].evt.media.upload => p.Data.Message.MediaURL = ""
  /\ \A p \in MessagePayloads :
       /\ p.Data.Message.Base64 # "" => repo[p.instance].Base64
       /\ p.Data.Message.MediaURL # "" => fileStorage

\* the message whose upload failed was enqueued once, with its inlined body
\* and no url, for "b", which inlines media, on a service with a blob storage
C21_Witness ==
  /\ RelayFails
  /\ hargs[1].id = "b"
  /\ fileStorage
  /\ hargs[1].evt.media.download
  /\ ~hargs[1].evt.media.upload
  /\ pc[1] = "done"
  /\ nextTask = 1
  /\ \E p \in MessagePayloads :
       p.Data.Message.MediaURL = "" /\ p.Data.Message.Base64 = "base64"

----------------------------------------------------------------------------
(* The acknowledgements *)

\* C22: a delivery-receipt acknowledgement is started only for a message
\* that is not self-sent and only for an instance whose ReadMessages policy
\* is enabled
C22_DeliveryReceiptGated ==
  \A r \in receipts :
    r.kind = "delivered" => ~r.e.fromMe /\ repo[r.id].ReadMessages

----------------------------------------------------------------------------
(* The group-skip policy *)

\* C24: for an instance that skips groups no notification is built for an
\* event that concerns a group chat, whatever the type of the event
C24_GroupSkipEveryKind ==
  (/\ hargs[1] # NoArgs
   /\ hargs[1].evt.type \notin {"LoggedOut", "Unknown"}
   /\ hargs[1].evt.chat = "group"
   /\ repo[hargs[1].id] # NoInstance
   /\ repo[hargs[1].id].GroupsIgnore)
    => todo[1] = <<>> /\ BuiltPayloads = {}

----------------------------------------------------------------------------
(* The batches of the presence scheduler *)

\* the steps of the goroutine of an id within one batch
BatchSteps ==
  {<<"start", "load">>, <<"load", "absent">>, <<"load", "present">>,
   <<"absent", "cleared">>, <<"present", "skipped">>, <<"present", "failed">>,
   <<"present", "sent">>}

\* C25: at most PresencePoolSize goroutines of a batch hold a slot, that is
\* are between the acquisition and their return, whatever the size of the
\* snapshot; and each id of the snapshot is processed once: its goroutine
\* only advances, from its start to one outcome, which it has reached when the
\* batch returns, while an id outside the snapshot has no goroutine
C25_PoolBound ==
  /\ [](Cardinality(InPool) <= PresencePoolSize)
  /\ [][\A id \in Ids :
          /\ (spc = "batch" /\ bpc'[id] # bpc[id]) => <<bpc[id], bpc'[id]>> \in BatchSteps
          /\ (spc = "range" /\ spc' = "batch")
               => bpc'[id] = IF id \in instanceIDs THEN "start" ELSE "-"
          /\ (spc = "batch" /\ spc' = "tick")
               => bpc[id] \in (IF id \in instanceIDs
                               THEN {"cleared", "skipped", "failed", "sent"} ELSE {"-"})]_vars

\* every slot is held and the goroutine of a third id of the snapshot waits
\* for one
C25_Witness ==
  /\ spc = "batch"
  /\ Cardinality(instanceIDs) > PresencePoolSize
  /\ Cardinality(InPool) = PresencePoolSize
  /\ \E id \in instanceIDs : bpc[id] = "start"

\* the goroutines of a batch that have not returned
BatchRunning == {id \in Ids : bpc[id] \in {"start", "load", "absent", "present"}}

\* C26: goroutines of a batch run only while the manager is inside that
\* batch, so a batch returns after all of them and the next firing takes its
\* snapshot with none left; and the first firing follows the start of the
\* manager directly, a tick being awaited only after a batch
C26_NoOverlap ==
  /\ [](spc # "batch" => BatchRunning = {})
  /\ [][/\ (spc = "startup" /\ spc' # spc) => spc' = "range"
        /\ (spc' = "range" /\ spc # "range") => spc \in {"startup", "tick"}
        /\ (spc' = "tick" /\ spc # "tick") => spc \in {"range", "batch"}
        /\ (instanceIDs' # instanceIDs \/ ranged' # ranged) => spc' = "range"]_vars

\* a later firing takes its snapshot after a batch that issued a presence
\* command has returned
C26_Witness ==
  /\ spc = "range"
  /\ ranged # {}
  /\ BatchRunning = {}
  /\ PresenceIssued # {}

\* a command operation was called when its id had no handle
CalledWithoutHandle ==
  /\ cmd.pc \in {"idle", "done"}
  /\ cmd' # cmd
  /\ cmd'.id \notin clients

\* C27: a command operation called when its id has no handle fails to the
\* caller with ErrClientIsNil and calls the session runtime not once; a
\* failed call to the session runtime ends the operation with that failure,
\* the call made exactly once and nothing after it
C27_CommandsFailToCaller ==
  /\ [](/\ cmd.failed =>
             /\ cmd.pc = "done"
             /\ cmd.result = "err"
        /\ \A i, j \in DOMAIN cmd.calls : cmd.calls[i] = cmd.calls[j] => i = j
        /\ \A i \in DOMAIN cmd.calls : cmd.calls[i] \in RuntimeCalls
        /\ cmd.result = "ErrClientIsNil" => cmd.calls = <<>>)
  /\ [][CalledWithoutHandle =>
          /\ cmd'.pc = "done"
          /\ cmd'.result = "ErrClientIsNil"
          /\ cmd'.calls = <<>>]_vars

\* a media operation called after the logout removed the client of its id
\* has failed without a call
C27_Witness ==
  /\ cmd.op \in MediaOps
  /\ cmd.id = "a"
  /\ "a" \notin clients
  /\ cmd.result = "ErrClientIsNil"

\* a failed upload ended a media operation after one call
C27_WitnessFailure ==
  /\ cmd.op \in MediaOps
  /\ cmd.failed
  /\ cmd.calls = <<"Upload">>
  /\ cmd.result = "err"

\* the handlers waiting to send on s.emitter
Enqueuing == {e \in Calls : pc[e] = "emit"}

\* an upper count of the events accepted and not terminal: each is in flight
\* or has a task on the channel or with the worker
Pending ==
  Cardinality(InFlight) + Len(emitter) + (IF cur = NoTask THEN 0 ELSE 1)

\* C28: a handler waiting to send on a full channel keeps its slot and does
\* not move until there is room, and Handle takes no further call while the
\* limiter is saturated; the events accepted and not terminal are never more
\* than the capacity of the limiter plus that of the channel plus one
C28_Backpressure ==
  /\ [](/\ Enqueuing \subseteq InFlight
        /\ Cardinality(Enqueuing) <= handlerSemaphore
        /\ Pending <= HandlerSemaphoreSize + EmitterBufferSize + 1)
  /\ [][\A e \in Calls :
          /\ (e \in Enqueuing /\ Len(emitter) = EmitterBufferSize)
               => /\ pc'[e] = "emit"
                  /\ todo'[e] = todo[e]
                  /\ handlerSemaphore' >= Cardinality(Enqueuing)
          /\ (pc[e] = "new" /\ handlerSemaphore = HandlerSemaphoreSize)
               => pc'[e] = "new"]_vars

\* the channel is full, a handler waits to send, the limiter is saturated and
\* a further call waits for a slot
C28_Witness ==
  /\ Len(emitter) = EmitterBufferSize
  /\ Enqueuing # {}
  /\ handlerSemaphore = HandlerSemaphoreSize
  /\ \E e \in Calls : pc[e] = "new"

\* the count reaches its bound
C28_WitnessBound == Pending = HandlerSemaphoreSize + EmitterBufferSize + 1

\* the largest number of tasks the calls of one behaviour can send
MaxTasks == MaxEvents * (MaxReceiptIDs + 1)

\* C29: under fair scheduling every handler waiting to send on s.emitter
\* sends and returns, a saturated limiter gets a free slot again, and every
\* task sent on s.emitter reaches a terminal outcome
C29_Progress ==
  /\ \A e \in Calls : (pc[e] = "emit") ~> (pc[e] = "done")
  /\ (handlerSemaphore = HandlerSemaphoreSize)
       ~> (handlerSemaphore < HandlerSemaphoreSize)
  /\ \A n \in 1..MaxTasks : (nextTask >= n) ~> (n \in Range(termLog))

\* C30: nothing in the pipeline holds a notification back for an earlier
\* event of the same instance: a handler with a notification to send sends it
\* as soon as the channel has room, whatever the earlier calls are doing, so
\* the notifications of e1 then e2 can be enqueued e2 then e1
C30_NoArrivalOrder ==
  \A e \in OrderCalls :
    (pc[e] = "emit" /\ CanSend(emitter) /\ ~crashed) => ENABLED Emit(e)

\* the message was passed to Handle first and the receipt second, both for
\* "b", and the receipt's notification is enqueued ahead of the message's
C30_Witness ==
  /\ IsCallOf(1, "Message") /\ hargs[1].id = "b"
  /\ IsCallOf(2, "Receipt") /\ hargs[2].id = "b"
  /\ Len(emitter) = 2
  /\ emitter[1].data.event = WookMessagesUpdate
  /\ emitter[2].data.event = WookMessagesUpsert
  /\ emitter[1].id < emitter[2].id

\* call e is at the type switch with a subscribed message that the content
\* policy lets through and that converts to nothing
ConversionFails(e) ==
  /\ pc[e] = "switch"
  /\ IsCallOf(e, "Message")
  /\ WookMessagesUpsert \in EventMap(hinst[e])
  /\ ~canIgnoreGroup(hargs[e].evt, hinst[e])
  /\ ~canIgnoreMessage(hargs[e].evt)
  /\ convertEventMessage(hid[e], hinst[e], hargs[e].evt, clients) = Nil

\* C31: when the conversion of a subscribed message yields nothing (no
\* handle for the id, or no message body), the handler's step enqueues
\* nothing, leaves nothing to emit, starts no acknowledgement, gives its slot
\* back and does not bring the process down
C31_ConversionFailureDrops ==
  [][\A e \in Calls :
       (ConversionFails(e) /\ pc'[e] # pc[e])
         => /\ pc'[e] = "done"
            /\ todo'[e] = <<>>
            /\ emitter' = emitter
            /\ nextTask' = nextTask
            /\ receipts' = receipts
            /\ handlerSemaphore' = handlerSemaphore - 1
            /\ ~crashed']_vars

\* an inbound message with a body, handled for "a" after the logout removed
\* its client, was dropped: no acknowledgement, no notification but the
\* logout's
C31_Witness ==
  /\ IsCallOf(1, "LoggedOut") /\ pc[1] = "done"
  /\ IsCallOf(2, "Message") /\ pc[2] = "done"
  /\ hargs[2].evt.body /\ ~hargs[2].evt.fromMe
  /\ "a" \notin clients
  /\ receipts = {}
  /\ nextTask = 1
  /\ handlerSemaphore = 0

\* the candidate names of the events that carry a name, group info included
NameSources(evt) ==
  IF evt.type = "GroupInfo" THEN <<evt.name>> ELSE NameCandidates(evt)

\* C32: for a contact, push name, business name or group info event whose
\* candidate names are all empty, no contact upsert is built or enqueued
C32_NoUpsertWithoutName ==
  (/\ hargs[1] # NoArgs
   /\ hargs[1].evt.type \in {"Contact", "PushName", "BusinessName", "GroupInfo"}
   /\ \A i \in DOMAIN NameSources(hargs[1].evt) :
        NameSources(hargs[1].evt)[i] = EmptyName)
    => \A p \in BuiltPayloads : p.event # WookContactsUpsert

\* the goroutine of id ended without a presence command delivered: the client
\* was not connected or logged in, or SendPresence failed
Unreached(id) == bpc[id] \in {"skipped", "failed"}

\* C33: a batch goroutine that skips a client that is not connected or
\* logged in, or whose presence command fails, leaves the flag of its id
\* stored; it does nothing more in that batch, and the Range of the next
\* batch takes the id again unless it was disabled meanwhile
C33_DisconnectedKeepsFlag ==
  /\ [](\A id \in Ids :
          (Unreached(id) /\ flagOp[id] = "enable") => id \in alwaysOnlineIDs)
  /\ [][\A id \in Ids :
          /\ (bpc[id] = "present" /\ bpc'[id] \in {"skipped", "failed"})
               => alwaysOnlineIDs' = alwaysOnlineIDs
          /\ (Unreached(id) /\ bpc'[id] # bpc[id])
               => (spc = "range" /\ spc' # "range")
          /\ (Unreached(id) /\ flagOp[id] = "enable" /\ id \in ranged' \ ranged)
               => id \in instanceIDs']_vars

\* "b" was skipped by the last batch, kept its flag, and the Range of the
\* next batch has taken it again
C33_Witness ==
  /\ bpc["b"] = "skipped"
  /\ "b" \in alwaysOnlineIDs
  /\ spc = "range"
  /\ "b" \in instanceIDs

\* the cache holds no unexpired item for id
NoUnexpiredEntry(id) == ~instanceCache[id].found \/ clock > instanceCache[id].exp

\* C34: a get issues a lookup exactly when its cache read finds no unexpired
\* item, and no second one: the call leaves the lookup for the type switch,
\* its return or the crash; an empty result is never stored, so the cache
\* never holds an item for an id without a row and each get for it looks up
\* again
C34_LookupsPerGet ==
  /\ [](\A id \in Ids : repo[id] = NoInstance => ~instanceCache[id].found)
  /\ [][\A e \in Calls :
          /\ GetStep(e) => (pc'[e] \in {"lookup", "cu_lookup"} <=> NoUnexpiredEntry(hid[e]))
          /\ (pc'[e] = "lookup" /\ pc[e] # "lookup") => pc[e] = "get"
          /\ (pc[e] = "lookup" /\ pc'[e] # "lookup")
               => pc'[e] \in {"switch", "done", "panic"}
          /\ (pc[e] = "lookup" /\ pc'[e] = "done") => instanceCache' = instanceCache]_vars

\* two gets for the same cold id have each issued a lookup
C34_Witness ==
  \E e1, e2 \in Calls :
    /\ e1 # e2
    /\ pc[e1] = "lookup" /\ pc[e2] = "lookup"
    /\ hid[e1] = "a" /\ hid[e2] = "a"
    /\ storedAt["a"] = -1

C36_ClearsOnlyAbsent ==
  [][\A id \in Ids :
       (bpc[id] = "absent" /\ bpc'[id] = "cleared" /\ id \notin alwaysOnlineIDs')
         => id \notin clients]_vars

\* C37: no command is issued on a handle that was removed from the registry;
\* for the goroutines of the presence batch: when one issues SendPresence on
\* the client it loaded, the registry still holds the handle of its id
C37_NoUseAfterRemoval ==
  [][\A id \in Ids :
       (bpc[id] = "present" /\ bpc'[id] \in {"sent", "failed"}) => id \in clients]_vars

\* the tasks on the channel or with the worker
QueuedTasks ==
  {emitter[i] : i \in 1..Len(emitter)} \cup (IF cur = NoTask THEN {} ELSE {cur})

\* C38: a notification a handler holds carries the id of the instance its
\* call was made for and that instance's url; a task pairs a payload with
\* the url of the instance the payload names; the task a handler sends is
\* for the id of its own call
C38_TenantIsolation ==
  /\ [](/\ \A e \in Calls : \A p \in Range(todo[e]) :
             /\ p.instance = hid[e]
             /\ p.url = repo[hid[e]].Url
        /\ \A t \in QueuedTasks :
             /\ repo[t.data.instance] # NoInstance
             /\ t.url = repo[t.data.instance].Url)
  /\ [][\A e \in Calls :
          (pc[e] = "emit" /\ todo'[e] # todo[e])
            => /\ Len(emitter') = Len(emitter) + 1
               /\ emitter'[Len(emitter')].data.instance = hid[e]
               /\ emitter'[Len(emitter')].url = repo[hid[e]].Url]_vars

\* handlers of "a" and of "b" each hold a notification while a task of "a"
\* waits on the channel
C38_Witness ==
  \E e1, e2 \in Calls :
    /\ pc[e1] = "emit" /\ hid[e1] = "a"
    /\ pc[e2] = "emit" /\ hid[e2] = "b"
    /\ Len(emitter) >= 1
    /\ emitter[1].data.instance = "a"

\* C39: the status code reported with an abandoned task is that of the final
\* attempt, the attempt lastErr describes: when the final attempt failed in
\* transport, without a response, no status code of an earlier attempt is
\* reported with it
C39_ConsistentReport ==
  (wres = "abandoned" /\ lastErr.kind = "send") => lastStatusCode = 0

\* C40: whatever the outcome of a task (delivered, abandoned, or not
\* serializable and so ended without an attempt), the step that ends it
\* takes the worker back to the receive of its loop, where it takes the next
\* task as soon as there is one
C40_WorkerSurvives ==
  /\ [](/\ wpc \in {"idle", "send", "sleep"}
        /\ (wpc = "idle" /\ emitter # <<>> /\ ~crashed) => ENABLED WorkerReceive
        /\ wres = "unserializable" => tries = 0)
  /\ [][termLog' # termLog
          => /\ wpc' = "idle"
             /\ wres' \in {"delivered", "abandoned", "unserializable"}
             /\ Len(termLog') = Len(termLog) + 1]_vars

\* the second task could not be serialized and ended without an attempt; the
\* worker is back at its receive with a third task waiting
C40_Witness ==
  /\ Len(termLog) = 2
  /\ wres = "unserializable"
  /\ tries = 0
  /\ wpc = "idle"
  /\ emitter # <<>>

\* the worker is delivering a third task after two others ended
C40_WitnessNext == Len(termLog) = 2 /\ wpc = "send" /\ cur.id = 3

============================================================================
